---------------------------- MODULE Spec2Model ----------------------------
(***************************************************************************)
(* Model of the voice-interview session handler websocket_endpoint         *)
(* (src/main.py), the store helpers it calls (src/firebase_client.py) and  *)
(* the score parser of generate_final_score (src/rag.py).                  *)
(*                                                                         *)
(* One action models one pass of the handler between two suspensions on    *)
(* the channel: the start-up up to the first receive, or one iteration of  *)
(* the receive loop with everything it calls.  External services (token    *)
(* verification, speech-to-text, generation, synthesis, the store) are     *)
(* inputs chosen by \E.  Sends are modelled for a connected peer; a peer   *)
(* that went away is observed by the next receive (Disconnect).            *)
(***************************************************************************)
EXTENDS Integers, Sequences, FiniteSets, TLC

\* ------------------------------------------------------------------ bounds
MaxQ == 2
MaxFaults == 2
MaxAhead == 1
MaxTok == 2
MaxLines == 2
MaxClients == 3
MaxTwoFaults == 1
MaxRatio == 100
MaxDocs == 2
MaxNotices == 2

\* ------------------------------------------------------- values and inputs
Sessions == {1, 2}
Interviews == {"a", "b"}
NoDoc == -1
StoredCounts == {NoDoc, 2}
Idx == 0 .. (MaxQ - 1)
Absent == "absent"
NoIndex == -1
EmptyM == "{}"
NonObj == "nonobject"
MetricsObjs == {EmptyM, "m1"}
MetricsFields == MetricsObjs \cup {NonObj}
QuestionLists == {[i \in 1 .. n |-> i - 1] : n \in 1 .. MaxQ}

VARIABLES
    pc,                  \* position of each session's handler
    interview_id,        \* main.py:68
    current_attempt,     \* main.py:74-79
    questions,           \* main.py:83
    interview_retriever, \* main.py:95-102 (TRUE: a retriever, FALSE: None)
    current_q_index,     \* main.py:104
    chat_hist,           \* main.py:107
    metrics_buffer,      \* main.py:132
    metrics_by_question, \* main.py:133
    log,                 \* per session: sends, store writes, calls, close, in program order
    db_attempt,          \* interviews/{id}.attempt_count in the store
    db_responses,        \* interviews/{id}/responses documents, in write order
    prompt,              \* arguments of the last generate_interviewer_reply call
    early,               \* indexes whose pending or applied metrics arrived before the cursor reached them
    last,                \* the last handler pass taken
    raw,                 \* a raw scoring response (parser specification)
    parsed,              \* the result of parsing raw
    pool,                \* what each generation client of llm_clients does when invoked
    reply,               \* the outcome of generate_interviewer_reply on pool
    tts_pool,            \* tts.py:103: what each synthesis client does when invoked
    enc_aud,             \* the outcome of tts_text_to_base64_wav on tts_pool
    metrics,             \* a metrics bundle given to format_metrics
    descriptor,          \* the parts format_metrics joins for metrics
    stored_questions,    \* the question documents of the store for one interview
    loaded,              \* the outcome of load_interview_questions on stored_questions
    inbox,               \* metrics notices arriving while one answer is awaited
    held                 \* the pending buffer after the notices taken from inbox

session_vars == <<pc, interview_id, current_attempt, questions, interview_retriever,
                  current_q_index, chat_hist, metrics_buffer, metrics_by_question,
                  log, prompt, early>>
store_vars == <<db_attempt, db_responses>>
parse_vars == <<raw, parsed>>
pool_vars == <<pool, reply>>
tts_vars == <<tts_pool, enc_aud>>
format_vars == <<metrics, descriptor>>
load_vars == <<stored_questions, loaded>>
notice_vars == <<inbox, held>>
pure_vars == <<tts_vars, format_vars, load_vars, notice_vars>>
vars == <<session_vars, store_vars, last, parse_vars, pool_vars, pure_vars>>

\* ------------------------------------------------------------ log entries
Ev(t) == [t |-> t, idx |-> -1, m |-> "-", ok |-> TRUE, score |-> -1, att |-> -1, code |-> -1]
\* t: "read_attempt", "build_index", "retrieve", "score_call" (calls), "save_turn",
\* "save_score" (store writes), "intro", "empty_notice", "transcript",
\* "llm_response", "error", "final_score", "no_questions" (sends), "close".
\* ok: the call or write succeeded, the message carries audio.

NoPrompt == [idx |-> -1, next |-> -1, metrics |-> "-", context |-> "-"]
NoLast == [s |-> 0, op |-> "none"]

\* ------------------------------------------- score parser (rag.py:305-330)
\* A raw response is a sequence of lines, a line a sequence of blank-separated
\* tokens: the two markers, a word without digits, a digit run ("7"), a signed
\* digit run ("-5") and a digit run glued to more text ("150/100").
Tk(k, v) == [k |-> k, v |-> v]
Tokens == {Tk("SCORE:", 0), Tk("JUSTIFICATION:", 0), Tk("word", 0),
           Tk("num", 7), Tk("num", 150), Tk("neg", 5), Tk("frac", 150)}
Lines == UNION {[1 .. n -> Tokens] : n \in 0 .. MaxTok}
\* the content of the model's message after .strip() (rag.py:303): no blank
\* first or last line, unless the whole response is empty
RawResponses ==
    {r \in UNION {[1 .. n -> Lines] : n \in 1 .. MaxLines} :
        Len(r) = 1 \/ (r[1] # <<>> /\ r[Len(r)] # <<>>)}

StartsWith(line, k) == Len(line) > 0 /\ line[1].k = k
\* line.replace(marker, "").strip()
Strip(line, k) == SelectSeq(line, LAMBDA t : t.k # k)

\* the loop of rag.py:308-312: the last SCORE:/JUSTIFICATION: line wins
RECURSIVE ScanLines(_, _, _, _)
ScanLines(response, i, score_line, justification_line) ==
    IF i > Len(response) THEN [score_line |-> score_line, justification_line |-> justification_line]
    ELSE IF StartsWith(response[i], "SCORE:")
         THEN ScanLines(response, i + 1, Strip(response[i], "SCORE:"), justification_line)
    ELSE IF StartsWith(response[i], "JUSTIFICATION:")
         THEN ScanLines(response, i + 1, score_line, Strip(response[i], "JUSTIFICATION:"))
    ELSE ScanLines(response, i + 1, score_line, justification_line)

\* int(score_line): one optionally signed digit run, nothing else
IntOk(score_line) == Len(score_line) = 1 /\ score_line[1].k \in {"num", "neg"}
IntOf(score_line) == IF score_line[1].k = "neg" THEN 0 - score_line[1].v ELSE score_line[1].v

Min(a, b) == IF a < b THEN a ELSE b
Max(a, b) == IF a > b THEN a ELSE b
\* max(0, min(100, score))
Clamp(score) == Max(0, Min(100, score))

\* re.findall(r'\b\d+\b', response)
NumbersOfToken(t) ==
    IF t.k \in {"num", "neg"} THEN <<t.v>>
    ELSE IF t.k = "frac" THEN <<t.v, 100>>
    ELSE <<>>
RECURSIVE NumbersOfLine(_)
NumbersOfLine(line) ==
    IF line = <<>> THEN <<>> ELSE NumbersOfToken(Head(line)) \o NumbersOfLine(Tail(line))
RECURSIVE Numbers(_)
Numbers(response) ==
    IF response = <<>> THEN <<>> ELSE NumbersOfLine(Head(response)) \o Numbers(Tail(response))

\* rag.py:315-323 with numbers[-1] in place of numbers[0]
ExtractScore_lastnumber(response, score_line) ==
    IF IntOk(score_line) THEN Clamp(IntOf(score_line))
    ELSE IF Numbers(response) # <<>> THEN Numbers(response)[Len(Numbers(response))] ELSE 50

\* rag.py:315-323
ExtractScore(response, score_line) ==
    IF IntOk(score_line) THEN Clamp(IntOf(score_line))
    ELSE IF Numbers(response) # <<>> THEN Numbers(response)[1] ELSE 50

\* rag.py:305-330; the justification is a sequence of lines
ParseResponse(response) ==
    LET sc == ScanLines(response, 1, <<>>, <<>>) IN
    [score |-> ExtractScore(response, sc.score_line),
     justification |-> IF sc.justification_line # <<>> THEN <<sc.justification_line>>
                       ELSE response]

ScoreOutcomes == {ParseResponse(r).score : r \in RawResponses}
NotParsed == [score |-> -1, justification |-> <<>>]

\* ------------------------------ generation failover (rag.py:78-85, 227-236)
\* What a client of llm_clients does when invoked: it raises an error or it
\* returns a message with a content.  The pool is never empty (rag.py:75-76).
Errors == {"e1", "e2"}
Contents == {"reply", " reply "}
Raises(e) == [raises |-> TRUE, v |-> e]
Returns(c) == [raises |-> FALSE, v |-> c]
ClientOutcomes == {Raises(e) : e \in Errors} \cup {Returns(c) : c \in Contents}
Pools == UNION {[1 .. n -> ClientOutcomes] : n \in 1 .. MaxClients}

\* getattr(ai_msg, "content", ...).strip()
StripText(c) == IF c = " reply " THEN "reply" ELSE c

NoError == "None"
NotCalled == [raised |-> FALSE, text |-> "", error |-> NoError, invoked |-> <<>>]

\* the assignment of rag.py:233 keeping the error of the first failing client
LastError_first(last_error, exc) == IF last_error = NoError THEN exc ELSE last_error
\* rag.py:233: last_error = exc
LastError(last_error, exc) == exc

\* the loop of rag.py:227-236; invoked: the clients called, in call order
RECURSIVE InvokeClients(_, _, _, _)
InvokeClients(clients, i, last_error, invoked) ==
    IF i > Len(clients)
    THEN [raised |-> TRUE, text |-> "", error |-> last_error, invoked |-> invoked]
    ELSE IF clients[i].raises
         THEN InvokeClients(clients, i + 1, LastError(last_error, clients[i].v),
                            Append(invoked, i))
         ELSE [raised |-> FALSE, text |-> StripText(clients[i].v), error |-> NoError,
               invoked |-> Append(invoked, i)]

\* --------------------------------------- synthesis failover (tts.py:103-150)
\* What a client of the synthesis pool does when invoked: it raises, or it
\* returns a response from which _extract_bytes gets the bytes v (tts.py:24-99,
\* b"" when nothing can be extracted).  The pool may be empty (tts.py:103-110).
NoBytes == ""
AudioBytes == {NoBytes, "w1", "w2"}
TtsOutcomes == {Raises(e) : e \in Errors} \cup {Returns(b) : b \in AudioBytes}
TtsPools == UNION {[1 .. n -> TtsOutcomes] : n \in 0 .. MaxClients}

\* tts.py:139: base64.b64encode(audio_data).decode("utf-8")
B64(b) == CASE b = "w1" -> "dzE="
            [] b = "w2" -> "dzI="
            [] OTHER -> ""

NoAudio == "None"
NotSynthesized == [called |-> FALSE, raised |-> FALSE, value |-> NoAudio, invoked |-> <<>>]

\* a client fails only when its call raises
Unusable_raisesonly(outcome) == outcome.raises
\* tts.py:134-137, 143: the call raises, or no bytes come out of the response
Unusable(outcome) == outcome.raises \/ outcome.v = NoBytes

\* the loop of tts.py:124-150; invoked: the clients called, in call order
RECURSIVE TryClients(_, _, _)
TryClients(cs, i, invoked) ==
    IF i > Len(cs)
    THEN [called |-> TRUE, raised |-> FALSE, value |-> NoAudio, invoked |-> invoked]
    ELSE IF Unusable(cs[i])
         THEN TryClients(cs, i + 1, Append(invoked, i))
         ELSE [called |-> TRUE, raised |-> FALSE, value |-> B64(cs[i].v),
               invoked |-> Append(invoked, i)]

\* tts.py:115-150
tts_text_to_base64_wav(cs) ==
    IF cs = <<>>
    THEN [called |-> TRUE, raised |-> FALSE, value |-> NoAudio, invoked |-> <<>>]
    ELSE TryClients(cs, 1, <<>>)

\* ------------------------------------------- format_metrics (rag.py:102-142)
\* A metrics bundle: silenceRatio in hundredths, pauseCount, and whether the
\* bundle has keys besides these two; Missing stands for an absent key.
Missing == -1
Ratios == 0 .. MaxRatio
Pauses == {0, 2, 3}
Bundles == [silenceRatio : Ratios \cup {Missing}, pauseCount : Pauses \cup {Missing},
            other : BOOLEAN]
NoMetrics == [silenceRatio |-> Missing, pauseCount |-> Missing, other |-> FALSE]
NotFormatted == [called |-> FALSE, parts |-> <<>>]

VeryFluent == "very fluent with minimal pauses"
GoodFluency == "good fluency with some natural pauses"
ModeratePauses == "moderate pauses during speech"
Significant == "significant pauses or hesitation"
Bands == <<VeryFluent, GoodFluency, ModeratePauses, Significant>>

\* the comparisons of rag.py:117-124 with <= in place of <
SilenceBand_inclusive(r) ==
    IF r <= 20 THEN VeryFluent
    ELSE IF r <= 40 THEN GoodFluency
    ELSE IF r <= 60 THEN ModeratePauses
    ELSE Significant
\* rag.py:117-124, silence_ratio in hundredths
SilenceBand(r) ==
    IF r < 20 THEN VeryFluent
    ELSE IF r < 40 THEN GoodFluency
    ELSE IF r < 60 THEN ModeratePauses
    ELSE Significant

\* rag.py:126-132; the count printed in the phrase is left out
PauseBand(n) ==
    IF n = 0 THEN "no noticeable breaks"
    ELSE IF n <= 2 THEN "brief pause(s)"
    ELSE "pauses detected"

\* rag.py:102-142; the returned string as the sequence of the parts it joins
format_metrics(m) ==
    IF m = NoMetrics
    THEN [called |-> TRUE, parts |-> <<"Audio analysis not available for this response.">>]
    ELSE LET silence == IF m.silenceRatio # Missing THEN <<SilenceBand(m.silenceRatio)>>
                        ELSE <<>>
             pauses == IF m.pauseCount # Missing THEN <<PauseBand(m.pauseCount)>> ELSE <<>>
             parts == silence \o pauses
         IN  [called |-> TRUE,
              parts |-> IF parts # <<>> THEN parts ELSE <<"Audio captured successfully">>]

\* ------------------------------------------------ store (firebase_client.py)
\* (data.get("attempt_count", 0) or 0) + 1, and 1 when the document does not exist
NextAttempt(stored) == IF stored = NoDoc THEN 1 ELSE stored + 1

\* the attempt number without the read of main.py:73-77
StartAttempt_unread(stored, read_ok) == 1
\* main.py:72-79: the attempt number of a starting session
StartAttempt(stored, read_ok) == IF read_ok THEN NextAttempt(stored) ELSE 1

\* the document of an answer filed under the question that follows the cursor
Turn_offcursor(s, idx, m) ==
    [interviewId |-> interview_id[s], questionIndex |-> idx + 1,
     metrics |-> m, attemptNumber |-> current_attempt[s]]

\* firebase_client.py:96-131: the document written for one answer
Turn(s, idx, m) ==
    [interviewId |-> interview_id[s], questionIndex |-> idx,
     metrics |-> m, attemptNumber |-> current_attempt[s]]

\* --------------------- load_interview_questions (firebase_client.py:42-91)
\* A document of interviews/{id}/questions has an order (Missing when the
\* field is absent) and a text ("" when absent or empty); a document of the
\* global collection has an interviewId and a text.
Orders == {Missing} \cup (1 .. MaxDocs)
Texts == {"", "x", "y"}
SubDocs == [order : Orders, text : Texts]
GlobalDocs == [interviewId : Interviews, text : Texts]
Streams(D) == UNION {[1 .. n -> D] : n \in 0 .. MaxDocs}
NoStore == [sub |-> <<>>, global |-> <<>>]
NotLoaded == [called |-> FALSE, questions |-> <<>>]

\* the documents kept in the order the store streams them
OrderKey_unsorted(d) == 0
\* firebase_client.py:57: (d.to_dict() or {}).get("order", 0)
OrderKey(d) == IF d.order = Missing THEN 0 ELSE d.order

\* sorted() is stable: d goes behind the documents whose key is not larger
InsertDoc(ds, d) ==
    LET k == Cardinality({i \in DOMAIN ds : OrderKey(ds[i]) <= OrderKey(d)}) IN
    SubSeq(ds, 1, k) \o <<d>> \o SubSeq(ds, k + 1, Len(ds))

\* firebase_client.py:55-58
RECURSIVE SortedDocs(_)
SortedDocs(docs) ==
    IF docs = <<>> THEN <<>>
    ELSE InsertDoc(SortedDocs(SubSeq(docs, 1, Len(docs) - 1)), docs[Len(docs)])

\* firebase_client.py:59-63, 75-79: the texts that are truthy, in document order
TextsOf(docs) ==
    LET kept == SelectSeq(docs, LAMBDA d : d.text # "") IN
    [i \in 1 .. Len(kept) |-> kept[i].text]

\* firebase_client.py:74: where("interviewId", "==", interview_id)
Where(docs, id) == SelectSeq(docs, LAMBDA d : d.interviewId = id)

\* firebase_client.py:87-91
DefaultQuestions ==
    <<"Can you briefly introduce yourself?",
      "Why are you interested in this role?",
      "Tell me about a challenging project you worked on and how you handled it.">>

\* firebase_client.py:42-91, every store read succeeding
load_interview_questions(st, id) ==
    LET from_sub == TextsOf(SortedDocs(st.sub))
        from_global == TextsOf(Where(st.global, id))
    IN  [called |-> TRUE,
         questions |-> IF from_sub # <<>> THEN from_sub
                       ELSE IF from_global # <<>> THEN from_global
                       ELSE DefaultQuestions]

\* ------------------------------------ metrics notices (main.py:155-159)
\* the frames of type "metrics" a handler takes while its cursor stays put
Notices == [questionIndex : {NoIndex} \cup Idx, metrics : MetricsFields]
Inboxes == [frames : UNION {[1 .. n -> Notices] : n \in 0 .. MaxNotices},
            taken : {0}, cursor : Idx]
NoInbox == [frames |-> <<>>, taken |-> 0, cursor |-> 0]

\* main.py:156: payload.get("questionIndex", current_q_index)
NoticeIndex(qi, c) == IF qi = NoIndex THEN c ELSE qi

\* the notice merged field by field into the entry already pending
StoreNotice_merges(buf, q_idx, received_metrics) ==
    IF buf[q_idx] # Absent /\ received_metrics = EmptyM THEN buf
    ELSE [buf EXCEPT ![q_idx] = received_metrics]

\* -------------------------------------------------------- session handler
\* the collaborator failures a session has met so far, read off its log: an
\* empty transcript, a failed generation, a null audio, a failed store read
\* or write, no retriever, a failed retrieval.  A run meets at most MaxFaults
\* of them.
IsFault(e) == e.t \in {"error", "empty_notice"} \/ ~e.ok
Faults(s) == Len(SelectSeq(log[s], IsFault))
Fails(flags) == Cardinality({i \in DOMAIN flags : ~flags[i]})

\* main.py:201: metrics_buffer.pop(current_q_index, {})
PoppedValue(buf, c) == IF buf[c] = Absent THEN EmptyM ELSE buf[c]
\* the pop replaced by metrics_buffer.clear()
PoppedBuffer_clears(buf, c) == [i \in DOMAIN buf |-> Absent]
PoppedBuffer(buf, c) == [buf EXCEPT ![c] = Absent]

\* every question taken for the last one
NextQuestion_ends(qs, c) == -1
\* main.py:237-240: index of the next question, -1 for None
NextQuestion(qs, c) == IF c < Len(qs) - 1 THEN c + 1 ELSE -1

\* the loop of main.py:135 entered again after the scoring of main.py:277-302
AfterReply_loops(next_question) == "awaiting"
\* main.py:276-307: after the reply the handler closes the channel and leaves
\* the loop when there is no next question, and awaits the next frame otherwise
AfterReply(next_question) == IF next_question = -1 THEN "closed" ELSE "awaiting"

\* the context of rag.py:211-212 kept when the query of rag.py:210 raises
Context_unguarded(retriever, query_ok) == IF retriever THEN "docs" ELSE ""
\* rag.py:207-215
Context(retriever, query_ok) == IF retriever /\ query_ok THEN "docs" ELSE ""

EmptyBuffer == [i \in Idx |-> Absent]

\* the handler returns or ends with an exception: its locals are gone
Gone(s, how) ==
    /\ pc' = [pc EXCEPT ![s] = how]
    /\ current_attempt' = [current_attempt EXCEPT ![s] = 0]
    /\ questions' = [questions EXCEPT ![s] = <<>>]
    /\ interview_retriever' = [interview_retriever EXCEPT ![s] = FALSE]
    /\ current_q_index' = [current_q_index EXCEPT ![s] = 0]
    /\ chat_hist' = [chat_hist EXCEPT ![s] = <<>>]
    /\ metrics_buffer' = [metrics_buffer EXCEPT ![s] = EmptyBuffer]
    /\ metrics_by_question' = [metrics_by_question EXCEPT ![s] = EmptyBuffer]
    /\ prompt' = [prompt EXCEPT ![s] = NoPrompt]
    /\ early' = [early EXCEPT ![s] = {}]

\* Reject with the intro of main.py:130 sent before the token is looked at
Reject_intro(s) ==
    /\ pc[s] = "accepted"
    /\ \E token \in {"missing", "invalid"} :
          last' = [NoLast EXCEPT !.s = s, !.op = "Reject"]
    /\ log' = [log EXCEPT ![s] = <<[Ev("intro") EXCEPT !.idx = 0],
                                   [Ev("close") EXCEPT !.code = 4401]>>]
    /\ pc' = [pc EXCEPT ![s] = "closed"]
    /\ UNCHANGED <<interview_id, current_attempt, questions, interview_retriever,
                   current_q_index, chat_hist, metrics_buffer, metrics_by_question,
                   prompt, early, store_vars, parse_vars, pool_vars, pure_vars>>

\* main.py:50-65: missing or unverifiable idToken
Reject(s) ==
    /\ pc[s] = "accepted"
    /\ \E token \in {"missing", "invalid"} :
          last' = [NoLast EXCEPT !.s = s, !.op = "Reject"]
    /\ log' = [log EXCEPT ![s] = <<[Ev("close") EXCEPT !.code = 4401]>>]
    /\ pc' = [pc EXCEPT ![s] = "closed"]
    /\ UNCHANGED <<interview_id, current_attempt, questions, interview_retriever,
                   current_q_index, chat_hist, metrics_buffer, metrics_by_question,
                   prompt, early, store_vars, parse_vars, pool_vars, pure_vars>>

\* Start with the receive loop of main.py:135 entered before the send of main.py:130
Start_nointro(s) ==
    /\ pc[s] = "accepted"
    /\ \E read_ok \in BOOLEAN, qs \in QuestionLists, retr \in BOOLEAN, audio \in BOOLEAN :
          /\ Fails(<<read_ok, retr, audio>>) <= MaxFaults
          /\ current_attempt' = [current_attempt EXCEPT
                                   ![s] = StartAttempt(db_attempt[interview_id[s]], read_ok)]
          /\ questions' = [questions EXCEPT ![s] = qs]
          /\ interview_retriever' = [interview_retriever EXCEPT ![s] = retr]
          /\ chat_hist' = [chat_hist EXCEPT
                             ![s] = <<[role |-> "system", content |-> "started"],
                                      [role |-> "assistant", content |-> "intro"]>>]
          /\ log' = [log EXCEPT
                       ![s] = <<[Ev("read_attempt") EXCEPT
                                    !.ok = read_ok,
                                    !.att = db_attempt[interview_id[s]]],
                                [Ev("build_index") EXCEPT !.ok = retr]>>]
          /\ pc' = [pc EXCEPT ![s] = "awaiting"]
    /\ last' = [NoLast EXCEPT !.s = s, !.op = "Start"]
    /\ UNCHANGED <<interview_id, current_q_index, metrics_buffer, metrics_by_question,
                   prompt, early, store_vars, parse_vars, pool_vars, pure_vars>>

\* main.py:67-133: verified token, attempt number, questions, retriever, intro
Start(s) ==
    /\ pc[s] = "accepted"
    /\ \E read_ok \in BOOLEAN, qs \in QuestionLists, retr \in BOOLEAN, audio \in BOOLEAN :
          /\ Fails(<<read_ok, retr, audio>>) <= MaxFaults
          /\ current_attempt' = [current_attempt EXCEPT
                                   ![s] = StartAttempt(db_attempt[interview_id[s]], read_ok)]
          /\ questions' = [questions EXCEPT ![s] = qs]
          /\ IF qs = <<>>
             THEN /\ log' = [log EXCEPT ![s] = <<[Ev("read_attempt") EXCEPT
                                                     !.ok = read_ok,
                                                     !.att = db_attempt[interview_id[s]]],
                                                 Ev("no_questions"),
                                                 [Ev("close") EXCEPT !.code = 1000]>>]
                  /\ pc' = [pc EXCEPT ![s] = "closed"]
                  /\ UNCHANGED <<interview_retriever, chat_hist>>
             ELSE /\ interview_retriever' = [interview_retriever EXCEPT ![s] = retr]
                  /\ chat_hist' = [chat_hist EXCEPT
                                     ![s] = <<[role |-> "system", content |-> "started"],
                                              [role |-> "assistant", content |-> "intro"]>>]
                  /\ log' = [log EXCEPT
                               ![s] = <<[Ev("read_attempt") EXCEPT
                                            !.ok = read_ok,
                                            !.att = db_attempt[interview_id[s]]],
                                        [Ev("build_index") EXCEPT !.ok = retr],
                                        [Ev("intro") EXCEPT !.idx = 0, !.ok = audio]>>]
                  /\ pc' = [pc EXCEPT ![s] = "awaiting"]
    /\ last' = [NoLast EXCEPT !.s = s, !.op = "Start"]
    /\ UNCHANGED <<interview_id, current_q_index, metrics_buffer, metrics_by_question,
                   prompt, early, store_vars, parse_vars, pool_vars, pure_vars>>

\* main.py:83: load_interview_questions reads the store outside every try block
\* (firebase_client.py:54-55, 74-75); a failing read ends the handler with the
\* exception, after the attempt number was read and before the intro
StartRaises(s) ==
    /\ pc[s] = "accepted"
    /\ \E read_ok \in BOOLEAN :
          log' = [log EXCEPT ![s] = <<[Ev("read_attempt") EXCEPT
                                          !.ok = read_ok,
                                          !.att = db_attempt[interview_id[s]]]>>]
    /\ Gone(s, "crashed")
    /\ last' = [NoLast EXCEPT !.s = s, !.op = "StartRaises"]
    /\ UNCHANGED <<interview_id, store_vars, parse_vars, pool_vars, pure_vars>>

\* Disconnect with the attempt counter of firebase_client.py:152-166 written
\* while the handler unwinds
Disconnect_counts(s) ==
    /\ pc[s] = "awaiting"
    /\ Gone(s, "ended")
    /\ last' = [NoLast EXCEPT !.s = s, !.op = "Disconnect"]
    /\ db_attempt' = [db_attempt EXCEPT
                        ![interview_id[s]] = NextAttempt(db_attempt[interview_id[s]])]
    /\ UNCHANGED <<interview_id, log, db_responses, parse_vars, pool_vars, pure_vars>>

\* main.py:138-144: the receive fails or yields websocket.disconnect
Disconnect(s) ==
    /\ pc[s] = "awaiting"
    /\ Gone(s, "ended")
    /\ last' = [NoLast EXCEPT !.s = s, !.op = "Disconnect"]
    /\ UNCHANGED <<interview_id, log, store_vars, parse_vars, pool_vars, pure_vars>>

\* main.py:149-163: text that is not JSON, a JSON object with another type
\* tag, a frame with neither text nor bytes
IgnoredKinds == {"nonjson", "othertype", "noframe"}
RecvIgnored(s) ==
    /\ pc[s] = "awaiting"
    /\ \E kind \in IgnoredKinds :
          last' = [NoLast EXCEPT !.s = s, !.op = "RecvIgnored"]
    /\ UNCHANGED <<session_vars, store_vars, parse_vars, pool_vars, pure_vars>>

\* main.py:155-156: payload.get on a JSON value that is not an object, and
\* int() of a questionIndex that is no number, raise outside every try block
\* that catches them: the handler ends with the exception
RaisingKinds == {"nonobject", "badindex"}
RecvRaises(s) ==
    /\ pc[s] = "awaiting"
    /\ \E kind \in RaisingKinds :
          last' = [NoLast EXCEPT !.s = s, !.op = "RecvRaises"]
    /\ Gone(s, "crashed")
    /\ UNCHANGED <<interview_id, log, store_vars, parse_vars, pool_vars, pure_vars>>

\* the assignment of main.py:158 replacing the buffer by the one notice
StoreNotice_replaces(buf, q_idx, received_metrics) ==
    [i \in DOMAIN buf |-> IF i = q_idx THEN received_metrics ELSE Absent]
\* main.py:155-160: a metrics notice; a missing questionIndex is the cursor
StoreNotice(buf, q_idx, received_metrics) == [buf EXCEPT ![q_idx] = received_metrics]

\* the questionIndex of a notice: missing, the cursor, or up to MaxAhead later
NoticeIndexes(c) == {NoIndex} \cup {i \in Idx : c <= i /\ i <= c + MaxAhead}

\* RecvMetrics with metrics_buffer held by the module instead of the handler:
\* a notice lands in the buffer of every session
RecvMetrics_shared(s) ==
    /\ pc[s] = "awaiting"
    /\ \E qi \in NoticeIndexes(current_q_index[s]), received_metrics \in MetricsFields :
          LET q_idx == NoticeIndex(qi, current_q_index[s]) IN
          /\ metrics_buffer' = [t \in Sessions |->
                                  StoreNotice(metrics_buffer[t], q_idx, received_metrics)]
          /\ early' = [early EXCEPT ![s] = IF q_idx > current_q_index[s]
                                           THEN early[s] \cup {q_idx}
                                           ELSE early[s] \ {q_idx}]
          /\ last' = [NoLast EXCEPT !.s = s, !.op = "RecvMetrics"]
    /\ UNCHANGED <<pc, interview_id, current_attempt, questions, interview_retriever,
                   current_q_index, chat_hist, metrics_by_question, log, prompt,
                   store_vars, parse_vars, pool_vars, pure_vars>>

RecvMetrics(s) ==
    /\ pc[s] = "awaiting"
    /\ \E qi \in NoticeIndexes(current_q_index[s]), received_metrics \in MetricsFields :
          LET q_idx == NoticeIndex(qi, current_q_index[s]) IN
          /\ metrics_buffer' = [metrics_buffer EXCEPT
                                  ![s] = StoreNotice(metrics_buffer[s], q_idx, received_metrics)]
          /\ early' = [early EXCEPT ![s] = IF q_idx > current_q_index[s]
                                           THEN early[s] \cup {q_idx}
                                           ELSE early[s] \ {q_idx}]
          /\ last' = [NoLast EXCEPT !.s = s, !.op = "RecvMetrics"]
    /\ UNCHANGED <<pc, interview_id, current_attempt, questions, interview_retriever,
                   current_q_index, chat_hist, metrics_by_question, log, prompt,
                   store_vars, parse_vars, pool_vars, pure_vars>>

\* AudioEmpty with the pop of main.py:201 moved above the check of main.py:193
AudioEmpty_consumes(s) ==
    /\ pc[s] = "awaiting"
    /\ Faults(s) + 1 <= MaxFaults
    /\ log' = [log EXCEPT ![s] = Append(log[s], Ev("empty_notice"))]
    /\ metrics_buffer' = [metrics_buffer EXCEPT
                            ![s] = PoppedBuffer(metrics_buffer[s], current_q_index[s])]
    /\ last' = [NoLast EXCEPT !.s = s, !.op = "AudioEmpty"]
    /\ UNCHANGED <<pc, interview_id, current_attempt, questions, interview_retriever,
                   current_q_index, chat_hist, metrics_by_question,
                   prompt, early, store_vars, parse_vars, pool_vars, pure_vars>>

\* AudioEmpty with save_user_response of main.py:226 moved above the check
AudioEmpty_persists(s) ==
    /\ pc[s] = "awaiting"
    /\ Faults(s) + 1 <= MaxFaults
    /\ log' = [log EXCEPT ![s] = Append(log[s], Ev("empty_notice"))]
    /\ db_responses' = Append(db_responses, Turn(s, current_q_index[s], EmptyM))
    /\ last' = [NoLast EXCEPT !.s = s, !.op = "AudioEmpty"]
    /\ UNCHANGED <<pc, interview_id, current_attempt, questions, interview_retriever,
                   current_q_index, chat_hist, metrics_buffer, metrics_by_question,
                   prompt, early, db_attempt, parse_vars, pool_vars, pure_vars>>

\* AudioEmpty with the continue of main.py:198 replaced by the increment of
\* main.py:307 when a question follows
AudioEmpty_advances(s) ==
    /\ pc[s] = "awaiting"
    /\ Faults(s) + 1 <= MaxFaults
    /\ log' = [log EXCEPT ![s] = Append(log[s], Ev("empty_notice"))]
    /\ current_q_index' = [current_q_index EXCEPT
                             ![s] = IF NextQuestion(questions[s], current_q_index[s]) # -1
                                    THEN current_q_index[s] + 1
                                    ELSE current_q_index[s]]
    /\ last' = [NoLast EXCEPT !.s = s, !.op = "AudioEmpty"]
    /\ UNCHANGED <<pc, interview_id, current_attempt, questions, interview_retriever,
                   chat_hist, metrics_buffer, metrics_by_question,
                   prompt, early, store_vars, parse_vars, pool_vars, pure_vars>>

\* main.py:165-198: the transcription is empty or fails
AudioEmpty(s) ==
    /\ pc[s] = "awaiting"
    /\ Faults(s) + 1 <= MaxFaults
    /\ log' = [log EXCEPT ![s] = Append(log[s], Ev("empty_notice"))]
    /\ last' = [NoLast EXCEPT !.s = s, !.op = "AudioEmpty"]
    /\ UNCHANGED <<pc, interview_id, current_attempt, questions, interview_retriever,
                   current_q_index, chat_hist, metrics_buffer, metrics_by_question,
                   prompt, early, store_vars, parse_vars, pool_vars, pure_vars>>

\* main.py:201-202: {**frontend_metrics} of a buffered value that is not an
\* object raises TypeError outside every try block that catches it
AudioRaises(s) ==
    LET c == current_q_index[s] IN
    /\ pc[s] = "awaiting"
    /\ metrics_buffer[s][c] = NonObj
    /\ Gone(s, "crashed")
    /\ last' = [NoLast EXCEPT !.s = s, !.op = "AudioRaises"]
    /\ UNCHANGED <<interview_id, log, store_vars, parse_vars, pool_vars, pure_vars>>

\* main.py:200-234: what every turn with a transcript does before the reply
\* is generated; saved: the store accepted the write (firebase_client.py:109-131)
\* the assignment of main.py:203 skipped for an empty bundle
Finalize_nonempty(by_question, c, merged_metrics) ==
    IF merged_metrics = EmptyM THEN by_question
    ELSE [by_question EXCEPT ![c] = merged_metrics]
\* main.py:203: metrics_by_question[current_q_index] = merged_metrics
Finalize(by_question, c, merged_metrics) == [by_question EXCEPT ![c] = merged_metrics]

\* rag.py:257-262: the metrics block of the scoring prompt: a line Q<i+1> for
\* each key i of the finalized metrics in ascending order, with the text of
\* format_metrics for an empty bundle (rag.py:103-104) or the bundle it
\* describes; "No audio metrics provided." when there is no line
MetricsBlock(by_question) ==
    LET keys == {i \in DOMAIN by_question : by_question[i] # Absent}
        nth(k) == CHOOSE i \in keys : Cardinality({j \in keys : j < i}) = k - 1
        m(i) == IF by_question[i] = EmptyM
                THEN "Audio analysis not available for this response."
                ELSE by_question[i]
        metrics_lines == [k \in 1 .. Cardinality(keys) |-> [q |-> nth(k) + 1, m |-> m(nth(k))]]
    IN  [lines |-> metrics_lines,
         text |-> IF metrics_lines # <<>> THEN "lines" ELSE "No audio metrics provided."]

UserEntry == [role |-> "user", content |-> "answer"]
ReplyEntry == [role |-> "assistant", content |-> "reply"]

TurnEvents(s, saved, query_ok) ==
    LET c == current_q_index[s]
        merged_metrics == PoppedValue(metrics_buffer[s], c)
    IN
    <<[Ev("transcript") EXCEPT !.idx = c, !.m = merged_metrics],
      [Ev("save_turn") EXCEPT !.idx = c, !.m = merged_metrics, !.ok = saved]>>
    \o (IF interview_retriever[s] THEN <<[Ev("retrieve") EXCEPT !.idx = c, !.ok = query_ok]>>
        ELSE <<>>)

TurnPrefix(s, saved, query_ok) ==
    LET c == current_q_index[s]
        merged_metrics == PoppedValue(metrics_buffer[s], c)
    IN
    /\ interview_retriever[s] \/ query_ok
    /\ metrics_buffer' = [metrics_buffer EXCEPT ![s] = PoppedBuffer(metrics_buffer[s], c)]
    /\ early' = [early EXCEPT ![s] = IF metrics_buffer[s][c] = Absent
                                     THEN early[s] \ {c} ELSE early[s]]
    /\ metrics_by_question' = [metrics_by_question EXCEPT
                                 ![s] = Finalize(metrics_by_question[s], c, merged_metrics)]
    /\ db_responses' = IF saved THEN Append(db_responses, Turn(s, c, merged_metrics))
                       ELSE db_responses
    /\ prompt' = [prompt EXCEPT ![s] = [idx |-> c, next |-> NextQuestion(questions[s], c),
                                        metrics |-> merged_metrics,
                                        context |-> Context(interview_retriever[s], query_ok)]]

\* AudioGenFail with the increment of main.py:307 reached on the failure path
AudioGenFail_advances(s) ==
    LET c == current_q_index[s] IN
    /\ pc[s] = "awaiting"
    /\ metrics_buffer[s][c] # NonObj
    /\ \E saved \in BOOLEAN, query_ok \in BOOLEAN :
          /\ Faults(s) + 1 + Fails(<<saved, query_ok>>) <= MaxFaults
          /\ TurnPrefix(s, saved, query_ok)
          /\ log' = [log EXCEPT ![s] = log[s]
                        \o TurnEvents(s, saved, query_ok)
                        \o <<[Ev("error") EXCEPT !.idx = c]>>]
    /\ chat_hist' = [chat_hist EXCEPT ![s] = Append(chat_hist[s], UserEntry)]
    /\ current_q_index' = [current_q_index EXCEPT
                             ![s] = IF NextQuestion(questions[s], c) # -1 THEN c + 1 ELSE c]
    /\ last' = [NoLast EXCEPT !.s = s, !.op = "AudioGenFail"]
    /\ UNCHANGED <<pc, interview_id, current_attempt, questions, interview_retriever,
                   db_attempt, parse_vars, pool_vars, pure_vars>>

\* AudioGenFail with the append of main.py:254 done before the call of main.py:244
AudioGenFail_appends(s) ==
    LET c == current_q_index[s] IN
    /\ pc[s] = "awaiting"
    /\ metrics_buffer[s][c] # NonObj
    /\ \E saved \in BOOLEAN, query_ok \in BOOLEAN :
          /\ Faults(s) + 1 + Fails(<<saved, query_ok>>) <= MaxFaults
          /\ TurnPrefix(s, saved, query_ok)
          /\ log' = [log EXCEPT ![s] = log[s]
                        \o TurnEvents(s, saved, query_ok)
                        \o <<[Ev("error") EXCEPT !.idx = c]>>]
    /\ chat_hist' = [chat_hist EXCEPT ![s] = chat_hist[s] \o <<UserEntry, ReplyEntry>>]
    /\ last' = [NoLast EXCEPT !.s = s, !.op = "AudioGenFail"]
    /\ UNCHANGED <<pc, interview_id, current_attempt, questions, interview_retriever,
                   current_q_index, db_attempt, parse_vars, pool_vars, pure_vars>>

\* main.py:242-254, 309-314: every generation client fails (rag.py:227-236)
AudioGenFail(s) ==
    LET c == current_q_index[s] IN
    /\ pc[s] = "awaiting"
    /\ metrics_buffer[s][c] # NonObj
    /\ \E saved \in BOOLEAN, query_ok \in BOOLEAN :
          /\ Faults(s) + 1 + Fails(<<saved, query_ok>>) <= MaxFaults
          /\ TurnPrefix(s, saved, query_ok)
          /\ log' = [log EXCEPT ![s] = log[s]
                        \o TurnEvents(s, saved, query_ok)
                        \o <<[Ev("error") EXCEPT !.idx = c]>>]
    /\ chat_hist' = [chat_hist EXCEPT ![s] = Append(chat_hist[s], UserEntry)]
    /\ last' = [NoLast EXCEPT !.s = s, !.op = "AudioGenFail"]
    /\ UNCHANGED <<pc, interview_id, current_attempt, questions, interview_retriever,
                   current_q_index, db_attempt, parse_vars, pool_vars, pure_vars>>

\* AudioReply with the send of main.py:274 and the increment of main.py:307
\* done only when synthesis produced audio
AudioReply_needsaudio(s) ==
    LET c == current_q_index[s] IN
    /\ pc[s] = "awaiting"
    /\ metrics_buffer[s][c] # NonObj
    /\ NextQuestion(questions[s], c) # -1
    /\ \E saved \in BOOLEAN, query_ok \in BOOLEAN, audio \in BOOLEAN :
          /\ Faults(s) + Fails(<<saved, query_ok, audio>>) <= MaxFaults
          /\ TurnPrefix(s, saved, query_ok)
          /\ log' = [log EXCEPT ![s] = log[s]
                        \o TurnEvents(s, saved, query_ok)
                        \o (IF audio THEN <<[Ev("llm_response") EXCEPT !.idx = c]>>
                            ELSE <<[Ev("error") EXCEPT !.idx = c, !.ok = FALSE]>>)]
          /\ current_q_index' = [current_q_index EXCEPT ![s] = IF audio THEN c + 1 ELSE c]
    /\ chat_hist' = [chat_hist EXCEPT ![s] = chat_hist[s] \o <<UserEntry, ReplyEntry>>]
    /\ last' = [NoLast EXCEPT !.s = s, !.op = "AudioReply"]
    /\ UNCHANGED <<pc, interview_id, current_attempt, questions, interview_retriever,
                   db_attempt, parse_vars, pool_vars, pure_vars>>

\* main.py:242-274, 306-307: a reply is generated and there is a next question
AudioReply(s) ==
    LET c == current_q_index[s] IN
    /\ pc[s] = "awaiting"
    /\ metrics_buffer[s][c] # NonObj
    /\ NextQuestion(questions[s], c) # -1
    /\ \E saved \in BOOLEAN, query_ok \in BOOLEAN, audio \in BOOLEAN :
          /\ Faults(s) + Fails(<<saved, query_ok, audio>>) <= MaxFaults
          /\ TurnPrefix(s, saved, query_ok)
          /\ log' = [log EXCEPT ![s] = log[s]
                        \o TurnEvents(s, saved, query_ok)
                        \o <<[Ev("llm_response") EXCEPT !.idx = c, !.ok = audio]>>]
    /\ chat_hist' = [chat_hist EXCEPT ![s] = chat_hist[s] \o <<UserEntry, ReplyEntry>>]
    /\ current_q_index' = [current_q_index EXCEPT ![s] = c + 1]
    /\ last' = [NoLast EXCEPT !.s = s, !.op = "AudioReply"]
    /\ UNCHANGED <<pc, interview_id, current_attempt, questions, interview_retriever,
                   db_attempt, parse_vars, pool_vars, pure_vars>>

\* ScoreEvents with a refused write of firebase_client.py:157 raising out of
\* save_interview_score instead of returning 1
ScoreEvents_saveraises(scored, score, score_saved, attempt_count) ==
    <<Ev("score_call")>>
    \o (IF scored
        THEN <<[Ev("save_score") EXCEPT !.score = score, !.ok = score_saved,
                                        !.att = attempt_count]>>
             \o (IF score_saved
                 THEN <<[Ev("final_score") EXCEPT !.score = score, !.att = attempt_count]>>
                 ELSE <<>>)
        ELSE <<>>)
    \o <<[Ev("close") EXCEPT !.code = 1000]>>

\* ScoreEvents with the send of main.py:298 repeated
ScoreEvents_twice(scored, score, score_saved, attempt_count) ==
    <<Ev("score_call")>>
    \o (IF scored
        THEN <<[Ev("save_score") EXCEPT !.score = score, !.ok = score_saved,
                                        !.att = attempt_count],
               [Ev("final_score") EXCEPT !.score = score, !.att = attempt_count],
               [Ev("final_score") EXCEPT !.score = score, !.att = attempt_count]>>
        ELSE <<>>)
    \o <<[Ev("close") EXCEPT !.code = 1000]>>

\* ScoreEvents with the send of main.py:298 placed before the save of main.py:284
ScoreEvents_sendfirst(scored, score, score_saved, attempt_count) ==
    <<Ev("score_call")>>
    \o (IF scored
        THEN <<[Ev("final_score") EXCEPT !.score = score, !.att = attempt_count],
               [Ev("save_score") EXCEPT !.score = score, !.ok = score_saved,
                                        !.att = attempt_count]>>
        ELSE <<>>)
    \o <<[Ev("close") EXCEPT !.code = 1000]>>

\* main.py:276-304 after the reply to the last question.  scored: a scoring
\* client answered (rag.py:299-336); score_saved: the store accepted the score
\* (firebase_client.py:146-172)
ScoreEvents(scored, score, score_saved, attempt_count) ==
    <<Ev("score_call")>>
    \o (IF scored
        THEN <<[Ev("save_score") EXCEPT !.score = score, !.ok = score_saved,
                                        !.att = attempt_count],
               [Ev("final_score") EXCEPT !.score = score, !.att = attempt_count]>>
        ELSE <<>>)
    \o <<[Ev("close") EXCEPT !.code = 1000]>>

\* firebase_client.py:146-172: the value save_interview_score returns
SavedAttempt(stored, score_saved) == IF score_saved THEN NextAttempt(stored) ELSE 1

AudioFinal(s) ==
    LET c == current_q_index[s]
        stored == db_attempt[interview_id[s]]
    IN
    /\ pc[s] = "awaiting"
    /\ metrics_buffer[s][c] # NonObj
    /\ NextQuestion(questions[s], c) = -1
    /\ \E saved \in BOOLEAN, query_ok \in BOOLEAN, audio \in BOOLEAN,
          scored \in BOOLEAN, score \in ScoreOutcomes, score_saved \in BOOLEAN :
          /\ Faults(s) + Fails(<<saved, query_ok, audio, scored, score_saved>>) <= MaxFaults
          /\ TurnPrefix(s, saved, query_ok)
          /\ log' = [log EXCEPT ![s] = log[s]
                        \o TurnEvents(s, saved, query_ok)
                        \o <<[Ev("llm_response") EXCEPT !.idx = c, !.ok = audio]>>
                        \o ScoreEvents(scored, score, score_saved,
                                       SavedAttempt(stored, score_saved))]
          /\ db_attempt' = IF scored /\ score_saved
                           THEN [db_attempt EXCEPT ![interview_id[s]] = NextAttempt(stored)]
                           ELSE db_attempt
    /\ chat_hist' = [chat_hist EXCEPT ![s] = chat_hist[s] \o <<UserEntry, ReplyEntry>>]
    /\ pc' = [pc EXCEPT ![s] = AfterReply(NextQuestion(questions[s], c))]
    /\ last' = [NoLast EXCEPT !.s = s, !.op = "AudioFinal"]
    /\ UNCHANGED <<interview_id, current_attempt, questions, interview_retriever,
                   current_q_index, parse_vars, pool_vars, pure_vars>>

\* main.py:303-304: the handler has closed the channel after the last reply
\* and left its loop; a frame the client still sends reaches no code of the
\* handler
RecvAfterClose(s) ==
    /\ pc[s] = "closed"
    /\ questions[s] # <<>>
    /\ last' = [NoLast EXCEPT !.s = s, !.op = "RecvAfterClose"]
    /\ UNCHANGED <<session_vars, store_vars, parse_vars, pool_vars, pure_vars>>

\* ----------------------------------------------------------- specification
\* the sessions of active have been accepted (main.py:48) with the interviewId
\* query parameters ids (main.py:68), nothing else happened
QuietWith(active, ids) ==
    /\ pc = [s \in Sessions |-> IF s \in active THEN "accepted" ELSE "off"]
    /\ interview_id = ids
    /\ current_attempt = [s \in Sessions |-> 0]
    /\ questions = [s \in Sessions |-> <<>>]
    /\ interview_retriever = [s \in Sessions |-> FALSE]
    /\ current_q_index = [s \in Sessions |-> 0]
    /\ chat_hist = [s \in Sessions |-> <<>>]
    /\ metrics_buffer = [s \in Sessions |-> EmptyBuffer]
    /\ metrics_by_question = [s \in Sessions |-> EmptyBuffer]
    /\ log = [s \in Sessions |-> <<>>]
    /\ prompt = [s \in Sessions |-> NoPrompt]
    /\ early = [s \in Sessions |-> {}]
    /\ db_responses = <<>>
    /\ last = NoLast

Quiet(active) == QuietWith(active, [s \in Sessions |-> "a"])

\* no pure function has been applied
PureIdle ==
    /\ tts_pool = <<>>
    /\ enc_aud = NotSynthesized
    /\ metrics = NoMetrics
    /\ descriptor = NotFormatted
    /\ stored_questions = NoStore
    /\ loaded = NotLoaded
    /\ inbox = NoInbox
    /\ held = EmptyBuffer

Init ==
    /\ Quiet({1})
    /\ \E k \in StoredCounts : db_attempt = [i \in Interviews |-> IF i = "a" THEN k ELSE NoDoc]
    /\ raw = <<>>
    /\ parsed = NotParsed
    /\ pool = <<>>
    /\ reply = NotCalled
    /\ PureIdle

Next ==
    \E s \in Sessions :
        \/ Reject(s)
        \/ Start(s)
        \/ StartRaises(s)
        \/ Disconnect(s)
        \/ RecvIgnored(s)
        \/ RecvRaises(s)
        \/ RecvMetrics(s)
        \/ AudioEmpty(s)
        \/ AudioRaises(s)
        \/ AudioGenFail(s)
        \/ AudioReply(s)
        \/ AudioFinal(s)
        \/ RecvAfterClose(s)

Spec == Init /\ [][Next]_vars

\* ------------------------------------------- specification of the parser
InitParse ==
    /\ Quiet({})
    /\ db_attempt = [i \in Interviews |-> NoDoc]
    /\ raw \in RawResponses
    /\ parsed = NotParsed
    /\ pool = <<>>
    /\ reply = NotCalled
    /\ PureIdle

\* rag.py:303-330 applied to the response of the first client that answers
Parse ==
    /\ raw # <<>>
    /\ parsed = NotParsed
    /\ parsed' = ParseResponse(raw)
    /\ UNCHANGED <<session_vars, store_vars, last, raw, pool_vars, pure_vars>>

NextParse == Parse

SpecParse == InitParse /\ [][NextParse]_vars

\* ------------------------------- specification of the generation failover
InitReply ==
    /\ Quiet({})
    /\ db_attempt = [i \in Interviews |-> NoDoc]
    /\ raw = <<>>
    /\ parsed = NotParsed
    /\ pool \in Pools
    /\ reply = NotCalled
    /\ PureIdle

\* rag.py:227-236: one call of generate_interviewer_reply
Generate ==
    /\ pool # <<>>
    /\ reply = NotCalled
    /\ reply' = InvokeClients(pool, 1, NoError, <<>>)
    /\ UNCHANGED <<session_vars, store_vars, last, parse_vars, pool, pure_vars>>

NextReply == Generate

SpecReply == InitReply /\ [][NextReply]_vars

\* -------------------------------- specification of the synthesis failover
\* the store is empty, no session is connected, nothing was parsed or generated
Idle ==
    /\ Quiet({})
    /\ db_attempt = [i \in Interviews |-> NoDoc]
    /\ raw = <<>>
    /\ parsed = NotParsed
    /\ pool = <<>>
    /\ reply = NotCalled

InitTts ==
    /\ Idle
    /\ tts_pool \in TtsPools
    /\ enc_aud = NotSynthesized
    /\ metrics = NoMetrics
    /\ descriptor = NotFormatted
    /\ stored_questions = NoStore
    /\ loaded = NotLoaded
    /\ inbox = NoInbox
    /\ held = EmptyBuffer

\* tts.py:115-150: one call of tts_text_to_base64_wav
Synthesize ==
    /\ ~enc_aud.called
    /\ enc_aud' = tts_text_to_base64_wav(tts_pool)
    /\ UNCHANGED <<session_vars, store_vars, last, parse_vars, pool_vars, tts_pool,
                   format_vars, load_vars, notice_vars>>

NextTts == Synthesize

SpecTts == InitTts /\ [][NextTts]_vars

\* ----------------------------------------- specification of format_metrics
InitFormat ==
    /\ Idle
    /\ tts_pool = <<>>
    /\ enc_aud = NotSynthesized
    /\ metrics \in Bundles
    /\ descriptor = NotFormatted
    /\ stored_questions = NoStore
    /\ loaded = NotLoaded
    /\ inbox = NoInbox
    /\ held = EmptyBuffer

\* rag.py:102-142: one call of format_metrics
Format ==
    /\ ~descriptor.called
    /\ descriptor' = format_metrics(metrics)
    /\ UNCHANGED <<session_vars, store_vars, last, parse_vars, pool_vars, tts_vars,
                   metrics, load_vars, notice_vars>>

NextFormat == Format

SpecFormat == InitFormat /\ [][NextFormat]_vars

\* ------------------------------- specification of load_interview_questions
\* the interview whose questions are loaded
Loading == "a"

InitLoad ==
    /\ Idle
    /\ tts_pool = <<>>
    /\ enc_aud = NotSynthesized
    /\ metrics = NoMetrics
    /\ descriptor = NotFormatted
    /\ stored_questions \in [sub : Streams(SubDocs), global : Streams(GlobalDocs)]
    /\ loaded = NotLoaded
    /\ inbox = NoInbox
    /\ held = EmptyBuffer

\* firebase_client.py:42-91: one call of load_interview_questions
Load ==
    /\ ~loaded.called
    /\ loaded' = load_interview_questions(stored_questions, Loading)
    /\ UNCHANGED <<session_vars, store_vars, last, parse_vars, pool_vars, tts_vars,
                   format_vars, stored_questions, notice_vars>>

NextLoad == Load

SpecLoad == InitLoad /\ [][NextLoad]_vars

\* -------------------------------------- specification of the metrics notices
InitNotices ==
    /\ Idle
    /\ tts_pool = <<>>
    /\ enc_aud = NotSynthesized
    /\ metrics = NoMetrics
    /\ descriptor = NotFormatted
    /\ stored_questions = NoStore
    /\ loaded = NotLoaded
    /\ inbox \in Inboxes
    /\ held = EmptyBuffer

\* main.py:155-159: the next notice of the inbox is taken
TakeNotice ==
    /\ inbox.taken < Len(inbox.frames)
    /\ LET payload == inbox.frames[inbox.taken + 1]
           q_idx == NoticeIndex(payload.questionIndex, inbox.cursor)
       IN  held' = StoreNotice(held, q_idx, payload.metrics)
    /\ inbox' = [inbox EXCEPT !.taken = inbox.taken + 1]
    /\ UNCHANGED <<session_vars, store_vars, last, parse_vars, pool_vars, tts_vars,
                   format_vars, load_vars>>

NextNotices == TakeNotice

SpecNotices == InitNotices /\ [][NextNotices]_vars

\* ------------------------------------------ specification of two sessions
\* two handlers of one process (main.py:46-47), connected with different
\* interviewId parameters, take their passes in any order
InitTwo ==
    /\ QuietWith({1, 2}, [s \in Sessions |-> IF s = 1 THEN "a" ELSE "b"])
    /\ \E k \in StoredCounts \ {NoDoc} :
          db_attempt = [i \in Interviews |-> IF i = "a" THEN k ELSE NoDoc]
    /\ raw = <<>>
    /\ parsed = NotParsed
    /\ pool = <<>>
    /\ reply = NotCalled
    /\ PureIdle

\* the collaborator failures of both sessions together
TwoFaults == Faults(1) + Faults(2)

\* the score every scoring call of a two-session run returns (rag.py:323)
TwoScore == 50

\* the environment of a two-session run: at most MaxTwoFaults empty
\* transcripts and failed generations in all, every other collaborator call
\* succeeds, notices carry the metrics object "m1", and the two interviews
\* have at most MaxQ + 1 questions together
TwoBound ==
    /\ TwoFaults <= MaxTwoFaults
    /\ Len(questions[1]) + Len(questions[2]) <= MaxQ + 1
    /\ \A s \in Sessions :
          /\ \A p \in DOMAIN log[s] :
                /\ log[s][p].ok
                /\ log[s][p].t \in {"save_score", "final_score"} => log[s][p].score = TwoScore
          /\ \A i \in Idx : metrics_buffer[s][i] \in {Absent, "m1"}

NextTwo ==
    \E s \in Sessions :
        \/ Reject(s) /\ TwoBound'
        \/ Start(s) /\ TwoBound'
        \/ StartRaises(s) /\ TwoBound'
        \/ Disconnect(s) /\ TwoBound'
        \/ RecvIgnored(s) /\ TwoBound'
        \/ RecvRaises(s) /\ TwoBound'
        \/ RecvMetrics(s) /\ TwoBound'
        \/ AudioEmpty(s) /\ TwoBound'
        \/ AudioGenFail(s) /\ TwoBound'
        \/ AudioReply(s) /\ TwoBound'
        \/ AudioFinal(s) /\ TwoBound'

SpecTwo == InitTwo /\ [][NextTwo]_vars

\* ------------------------- specification of two sessions of one interview
\* two handlers of one process connected with the same interviewId parameter
\* (main.py:68), in the environment of TwoBound
InitSame ==
    /\ QuietWith({1, 2}, [s \in Sessions |-> "a"])
    /\ \E k \in StoredCounts \ {NoDoc} :
          db_attempt = [i \in Interviews |-> IF i = "a" THEN k ELSE NoDoc]
    /\ raw = <<>>
    /\ parsed = NotParsed
    /\ pool = <<>>
    /\ reply = NotCalled
    /\ PureIdle

NextSame ==
    \E s \in Sessions :
        \/ Reject(s) /\ TwoBound'
        \/ Start(s) /\ TwoBound'
        \/ StartRaises(s) /\ TwoBound'
        \/ Disconnect(s) /\ TwoBound'
        \/ RecvIgnored(s) /\ TwoBound'
        \/ RecvRaises(s) /\ TwoBound'
        \/ RecvMetrics(s) /\ TwoBound'
        \/ AudioEmpty(s) /\ TwoBound'
        \/ AudioGenFail(s) /\ TwoBound'
        \/ AudioReply(s) /\ TwoBound'
        \/ AudioFinal(s) /\ TwoBound'

SpecSame == InitSame /\ [][NextSame]_vars

\* ----------------------------- specification of a session that completes
\* the environment in which every collaborator call of session 1 succeeds
\* (no empty transcript, no failed generation, synthesis, retrieval, scoring,
\* read or write) and every metrics notice carries an object
AllSucceed ==
    /\ Faults(1) = 0
    /\ \A p \in DOMAIN log[1] :
          log[1][p].t = "score_call" =>
              \E q \in DOMAIN log[1] : log[1][q].t = "final_score"
    /\ \A i \in Idx : metrics_buffer[1][i] # NonObj

\* main.py:165-307: the handler takes an audio segment of the client
Answer == (AudioReply(1) \/ AudioFinal(1)) /\ AllSucceed'

NextLive ==
    \/ Start(1) /\ AllSucceed'
    \/ RecvIgnored(1) /\ AllSucceed'
    \/ RecvMetrics(1) /\ AllSucceed'
    \/ AudioReply(1) /\ AllSucceed'
    \/ AudioFinal(1) /\ AllSucceed'

\* the client keeps sending audio segments and the handler, a task of the
\* event loop awaiting websocket.receive() (main.py:137), takes each of them
SpecLive == Init /\ [][NextLive]_vars /\ WF_vars(Answer)

\* ------------------------------------------------------------------ claims
\* C1: for every raw model response (well-formed SCORE line, out-of-range
\* value, non-numeric SCORE line, no SCORE line) the score returned by
\* generate_final_score is an integer in [0,100].
C1_ScoreInRange == parsed # NotParsed => parsed.score \in 0 .. 100

\* ------------------------------------------------- helpers of the claims
TurnOps == {"AudioGenFail", "AudioReply", "AudioFinal"}
By(s, op) == last'.s = s /\ last'.op = op
Pos(L, t) == {p \in DOMAIN L : L[p].t = t}
PosAt(L, t, i) == {p \in DOMAIN L : L[p].t = t /\ L[p].idx = i}
Records(i) == {p \in DOMAIN db_responses : db_responses[p].questionIndex = i}
LastIdx(s) == Len(questions[s]) - 1
Pending(s) ==
    IF metrics_buffer[s][current_q_index[s]] = Absent THEN EmptyM
    ELSE metrics_buffer[s][current_q_index[s]]

\* C2: an audio segment whose transcription is empty or fails leaves the
\* cursor, the persisted turns, the conversation history, the pending
\* metrics and the finalized metrics as they were and the session awaiting,
\* on every such segment, however many follow each other.
C2_EmptyTranscriptFrame ==
    [][\A s \in Sessions : By(s, "AudioEmpty") =>
          /\ current_q_index'[s] = current_q_index[s]
          /\ db_responses' = db_responses
          /\ chat_hist'[s] = chat_hist[s]
          /\ metrics_buffer'[s] = metrics_buffer[s]
          /\ metrics_by_question'[s] = metrics_by_question[s]
          /\ pc'[s] = "awaiting"]_vars

\* two empty transcripts in a row while metrics are pending for the cursor
C2_Witness ==
    /\ last = [s |-> 1, op |-> "AudioEmpty"]
    /\ Len(log[1]) >= 2
    /\ log[1][Len(log[1])].t = "empty_notice"
    /\ log[1][Len(log[1]) - 1].t = "empty_notice"
    /\ metrics_buffer[1][current_q_index[1]] = "m1"

\* C3: after reply generation raised in the turn for index i the cursor is
\* still i, and the next segment with a transcript is processed as an answer
\* to question i.
C3_RetrySameIndex ==
    \A s \in Sessions : \A p \in Pos(log[s], "error") :
        LET later == {q \in Pos(log[s], "transcript") : q > p} IN
        /\ (later = {} /\ pc[s] = "awaiting") => current_q_index[s] = log[s][p].idx
        /\ \A q \in later :
              (\A r \in later : q <= r) =>
                  /\ log[s][q].idx = log[s][p].idx
                  /\ log[s][q + 1].t = "save_turn"
                  /\ log[s][q + 1].idx = log[s][p].idx

\* generation failed on a question that has a successor and the next answer
\* was taken for the same question
C3_Witness ==
    \E p \in Pos(log[1], "error") : \E q \in Pos(log[1], "transcript") :
        /\ q > p
        /\ log[1][q].idx = log[1][p].idx
        /\ pc[1] = "awaiting"
        /\ log[1][p].idx < LastIdx(1)

\* C4: a turn on which every generation credential fails emits exactly one
\* error notice, leaves the session receiving, and adds no assistant entry to
\* the conversation history.
C4_GenerationFailure ==
    [][\A s \in Sessions : By(s, "AudioGenFail") =>
          /\ Len(log'[s]) > Len(log[s])
          /\ SubSeq(log'[s], 1, Len(log[s])) = log[s]
          /\ LET new == SubSeq(log'[s], Len(log[s]) + 1, Len(log'[s])) IN
                /\ Cardinality(Pos(new, "error")) = 1
                /\ new[Len(new)].t = "error"
                /\ Pos(new, "llm_response") = {}
                /\ Pos(new, "close") = {}
          /\ pc'[s] = "awaiting"
          /\ Len(SelectSeq(chat_hist'[s], LAMBDA e : e.role = "assistant"))
               = Len(SelectSeq(chat_hist[s], LAMBDA e : e.role = "assistant"))]_vars

C4_Witness ==
    /\ last = [s |-> 1, op |-> "AudioGenFail"]
    /\ pc[1] = "awaiting"
    /\ log[1][Len(log[1])].t = "error"
    /\ chat_hist[1][Len(chat_hist[1])].role = "user"

\* C5 as stated: within one session the turn record of a question index is
\* persisted at most once, also when generation fails and the answer is retried.
C5_TurnPersistedOnce ==
    \A i \in Idx : Cardinality(Records(i)) <= 1

\* C5 amended: a turn record is persisted once per transcribed answer whose
\* store write succeeds; an index has at most one transcribed answer more
\* than it has failed generations.
C5_OncePerTranscript ==
    \A i \in Idx :
        /\ Cardinality(Records(i)) = Cardinality({p \in PosAt(log[1], "save_turn", i) : log[1][p].ok})
        /\ Cardinality(PosAt(log[1], "save_turn", i)) = Cardinality(PosAt(log[1], "transcript", i))
        /\ Cardinality(PosAt(log[1], "transcript", i)) <= Cardinality(PosAt(log[1], "error", i)) + 1

\* two records of the same index after a failed generation
C5_Witness ==
    \E i \in Idx :
        /\ Cardinality(Records(i)) = 2
        /\ Cardinality(PosAt(log[1], "error", i)) = 1

\* C6: a metrics notice for a later index received while the cursor is at i
\* only enters the pending buffer; it stays there, untouched by the turn of
\* index i, whose metrics are the entry pending for i; and when the answer to
\* its own question is transcribed the pending entry is the metrics of the
\* transcript message, of the persisted turn, of the reply prompt and of the
\* finalized metrics.
C6_NoticeAhead ==
    [][\A s \in Sessions :
          /\ By(s, "RecvMetrics") =>
                /\ metrics_by_question'[s] = metrics_by_question[s]
                /\ current_q_index'[s] = current_q_index[s]
                /\ db_responses' = db_responses
                /\ log'[s] = log[s]
                /\ prompt'[s] = prompt[s]
                /\ \E j \in Idx : j >= current_q_index[s] /\ metrics_buffer'[s][j] # Absent
                      /\ \A k \in Idx \ {j} : metrics_buffer'[s][k] = metrics_buffer[s][k]
          /\ (last'.s = s /\ last'.op \in {"RecvIgnored", "AudioEmpty"} \cup TurnOps) =>
                \A j \in Idx : j # current_q_index[s] =>
                    metrics_buffer'[s][j] = metrics_buffer[s][j]
          /\ (last'.s = s /\ last'.op \in TurnOps) =>
                LET c == current_q_index[s]
                    n == Len(log[s])
                IN
                /\ metrics_by_question'[s][c] = Pending(s)
                /\ \A j \in Idx \ {c} : metrics_by_question'[s][j] = metrics_by_question[s][j]
                /\ metrics_buffer'[s][c] = Absent
                /\ prompt'[s].idx = c /\ prompt'[s].metrics = Pending(s)
                /\ log'[s][n + 1].t = "transcript"
                /\ log'[s][n + 1].idx = c /\ log'[s][n + 1].m = Pending(s)
                /\ log'[s][n + 2].t = "save_turn"
                /\ log'[s][n + 2].idx = c /\ log'[s][n + 2].m = Pending(s)
                /\ IF log'[s][n + 2].ok
                   THEN /\ Len(db_responses') = Len(db_responses) + 1
                        /\ db_responses'[Len(db_responses')].questionIndex = c
                        /\ db_responses'[Len(db_responses')].metrics = Pending(s)
                   ELSE db_responses' = db_responses]_vars

\* the metrics of turn 1 arrived while question 0 was awaited and differ from
\* the metrics of turn 0
C6_Witness ==
    /\ last.s = 1 /\ last.op \in TurnOps
    /\ 1 \in early[1]
    /\ metrics_buffer[1][1] = Absent
    /\ metrics_by_question[1][1] = "m1"
    /\ metrics_by_question[1][0] = EmptyM
    /\ \E p \in PosAt(log[1], "transcript", 1) : log[1][p].m = "m1"
    /\ \E p \in Records(1) : db_responses[p].metrics = "m1"
    /\ \A p \in Records(0) : db_responses[p].metrics = EmptyM

\* the stored attempt_count when the session started, and its successor
StoredAtStart(s) == log[s][1].att
Started(s) == log[s] # <<>> /\ log[s][1].t = "read_attempt"
HasLocals(s) == pc[s] \in {"awaiting", "closed"}
ScoreSavedAt(s) == {p \in Pos(log[s], "save_score") : log[s][p].ok}

\* C7 as stated: a session run alone against a stored attempt_count of k (no
\* document: 0) computes attempt number k+1 at its start, persists every turn
\* with k+1, and a successful score persistence stores and returns k+1.
C7_AttemptCounting ==
    Started(1) =>
        LET k1 == NextAttempt(StoredAtStart(1)) IN
        /\ HasLocals(1) => current_attempt[1] = k1
        /\ \A p \in DOMAIN db_responses : db_responses[p].attemptNumber = k1
        /\ \A p \in ScoreSavedAt(1) :
              /\ log[1][p].att = k1
              /\ db_attempt[interview_id[1]] = k1
              /\ \A q \in Pos(log[1], "final_score") : log[1][q].att = k1

\* C7 amended: the same when the read of the stored document at session
\* start succeeds; when that read raises, the attempt number of the session
\* and of its turns is 1, while a successful score persistence still stores
\* and returns k+1.
C7_AttemptCountingRead ==
    Started(1) =>
        LET k1 == NextAttempt(StoredAtStart(1))
            mine == IF log[1][1].ok THEN k1 ELSE 1
        IN
        /\ HasLocals(1) => current_attempt[1] = mine
        /\ \A p \in DOMAIN db_responses : db_responses[p].attemptNumber = mine
        /\ \A p \in ScoreSavedAt(1) :
              /\ log[1][p].att = k1
              /\ db_attempt[interview_id[1]] = k1
              /\ \A q \in Pos(log[1], "final_score") : log[1][q].att = k1
        /\ ScoreSavedAt(1) = {} => db_attempt[interview_id[1]] = StoredAtStart(1)

\* stored count 2, the session ran as attempt 3 and stored 3
C7_Witness ==
    /\ Started(1) /\ log[1][1].ok /\ StoredAtStart(1) = 2
    /\ pc[1] = "closed"
    /\ current_attempt[1] = 3
    /\ db_responses # <<>>
    /\ \A p \in DOMAIN db_responses : db_responses[p].attemptNumber = 3
    /\ ScoreSavedAt(1) # {}
    /\ db_attempt["a"] = 3
    /\ \E q \in Pos(log[1], "final_score") : log[1][q].att = 3

\* C8: no execution emits more than one final_score; when every answer had a
\* transcript and generation and scoring succeeded, the reply to the last
\* answer is followed by one scoring call and one final_score message, and
\* the channel is closed after that message.
Replied(s) == HasLocals(s) /\ PosAt(log[s], "llm_response", LastIdx(s)) # {}
C8_OneFinalScore ==
    \A s \in Sessions :
        /\ Cardinality(Pos(log[s], "final_score")) <= 1
        /\ Cardinality(Pos(log[s], "score_call")) <= 1
        /\ (/\ Replied(s)
            /\ Pos(log[s], "empty_notice") = {}
            /\ Pos(log[s], "error") = {}
            /\ Pos(log[s], "save_score") # {}) =>
              /\ Cardinality(Pos(log[s], "score_call")) = 1
              /\ Cardinality(Pos(log[s], "final_score")) = 1
              /\ Cardinality(Pos(log[s], "llm_response")) = Len(questions[s])
              /\ \A p \in Pos(log[s], "score_call") :
                    \A q \in PosAt(log[s], "llm_response", LastIdx(s)) : p = q + 1
              /\ pc[s] = "closed"
              /\ log[s][Len(log[s])].t = "close"
              /\ log[s][Len(log[s]) - 1].t = "final_score"

C8_Witness ==
    /\ pc[1] = "closed"
    /\ Len(questions[1]) = 2
    /\ Faults(1) = 0
    /\ Cardinality(Pos(log[1], "final_score")) = 1
    /\ Cardinality(Pos(log[1], "transcript")) = 2

\* C9 as stated: once the reply to the last question is emitted, the score is
\* persisted, then a final_score message is emitted, then the channel is
\* closed, on every execution.
C9_FinalizingOrder ==
    \A s \in Sessions : Replied(s) =>
        LET n == Len(log[s]) IN
        /\ log[s][n].t = "close"
        /\ log[s][n - 1].t = "final_score"
        /\ log[s][n - 2].t = "save_score" /\ log[s][n - 2].ok

\* C9 amended: once the reply to the last question is emitted the Scoring
\* Engine is called and the channel is closed; when scoring returns a result,
\* the score is handed to the store (which may refuse it), then the
\* final_score message with that score and the returned attempt count is
\* emitted, then the channel is closed; when scoring raises, nothing is
\* persisted and no final_score is emitted before the close.
C9_FinalizingOrderScored ==
    \A s \in Sessions : Replied(s) =>
        LET n == Len(log[s])
            r == CHOOSE q \in PosAt(log[s], "llm_response", LastIdx(s)) : TRUE
        IN
        /\ pc[s] = "closed"
        /\ log[s][n].t = "close" /\ log[s][n].code = 1000
        /\ log[s][r + 1].t = "score_call"
        /\ \/ n = r + 2
           \/ /\ n = r + 4
              /\ log[s][r + 2].t = "save_score"
              /\ log[s][r + 3].t = "final_score"
              /\ log[s][r + 3].score = log[s][r + 2].score
              /\ log[s][r + 3].att = log[s][r + 2].att
              /\ log[s][r + 2].ok => db_attempt[interview_id[s]] = log[s][r + 2].att
              /\ ~log[s][r + 2].ok => log[s][r + 2].att = 1

\* the store refused the score: final_score still follows, with count 1
C9_Witness ==
    /\ Replied(1)
    /\ \E p \in Pos(log[1], "save_score") :
          /\ ~log[1][p].ok
          /\ log[1][p + 1].t = "final_score" /\ log[1][p + 1].att = 1
          /\ log[1][p + 2].t = "close"
    /\ db_attempt["a"] = 2

\* C10: while an answer is awaited, an inbound message that is neither a
\* well-formed metrics notice nor an audio frame (text that is not JSON, JSON
\* that is not an object, another type tag, a notice whose questionIndex is
\* not an integer or whose metrics field is not an object, a frame without
\* text and bytes) changes nothing, emits nothing and leaves the session
\* receiving.
C10_MalformedIgnored ==
    [][\A s \in Sessions :
          /\ (last'.s = s /\ last'.op \in {"RecvIgnored", "RecvRaises"}) =>
                /\ pc'[s] = "awaiting"
                /\ current_q_index'[s] = current_q_index[s]
                /\ chat_hist'[s] = chat_hist[s]
                /\ metrics_buffer'[s] = metrics_buffer[s]
                /\ metrics_by_question'[s] = metrics_by_question[s]
                /\ log'[s] = log[s]
          /\ By(s, "RecvMetrics") =>
                \A j \in Idx : metrics_buffer'[s][j] = NonObj =>
                    metrics_buffer[s][j] = NonObj]_vars

\* the entries a handler pass appended to the log of its session
NewEvents(s) == SubSeq(log'[s], Len(log[s]) + 1, Len(log'[s]))
Roles(h, role) == Len(SelectSeq(h, LAMBDA e : e.role = role))

\* C11: turns of a session are strictly sequential: an answer is accepted
\* (sent back as transcript, persisted, appended to the history, finalized in
\* the metrics) for the cursor's index only, the cursor is the number of
\* replies emitted so far, so the answer to question i+1 is accepted only
\* after the reply for question i was emitted; and a pass that is no turn
\* accepts nothing.
C11_SequentialTurns ==
    [][\A s \in Sessions :
          /\ (last'.s = s /\ last'.op \in TurnOps) =>
                LET c == current_q_index[s]
                    new == NewEvents(s)
                IN
                /\ c = Cardinality(Pos(log[s], "llm_response"))
                /\ c > 0 => PosAt(log[s], "llm_response", c - 1) # {}
                /\ \A p \in DOMAIN new :
                      new[p].t \in {"transcript", "save_turn", "llm_response", "error"} =>
                          new[p].idx = c
                /\ Cardinality(Pos(new, "transcript")) = 1
                /\ Len(db_responses') <= Len(db_responses) + 1
                /\ \A p \in DOMAIN db_responses' :
                      IF p \in DOMAIN db_responses THEN db_responses'[p] = db_responses[p]
                      ELSE db_responses'[p].questionIndex = c
                /\ Roles(chat_hist'[s], "user") = Roles(chat_hist[s], "user") + 1
                /\ \A j \in Idx \ {c} : metrics_by_question'[s][j] = metrics_by_question[s][j]
                /\ current_q_index'[s] \in {c, c + 1}
                /\ current_q_index'[s] = c + 1 => PosAt(new, "llm_response", c) # {}
          /\ (last'.s = s /\ last'.op \notin TurnOps) =>
                /\ db_responses' = db_responses
                /\ Pos(NewEvents(s), "transcript") = {}
                /\ (pc'[s] = "awaiting" /\ last'.op # "Start") =>
                      /\ chat_hist'[s] = chat_hist[s]
                      /\ current_q_index'[s] = current_q_index[s]]_vars

\* the answer to question 1 was accepted after the reply to question 0
C11_Witness ==
    /\ last.s = 1 /\ last.op \in TurnOps
    /\ \E p \in PosAt(log[1], "llm_response", 0) : \E q \in PosAt(log[1], "transcript", 1) : p < q
    /\ Records(1) # {}
    /\ Records(0) # {}
    /\ metrics_by_question[1][1] # Absent

\* C12: a connection whose identity token is missing or fails verification
\* is closed with code 4401 and nothing else happens: no intro is sent, the
\* stored session state is not read, no turn and no score is persisted.
C12_Rejected ==
    [][\A s \in Sessions : By(s, "Reject") =>
          /\ log'[s] = <<[Ev("close") EXCEPT !.code = 4401]>>
          /\ pc'[s] = "closed"
          /\ db_responses' = db_responses
          /\ db_attempt' = db_attempt
          /\ current_attempt'[s] = current_attempt[s]
          /\ chat_hist'[s] = <<>>
          /\ questions'[s] = <<>>]_vars

C12_Witness ==
    /\ last = [s |-> 1, op |-> "Reject"]
    /\ pc[1] = "closed"
    /\ log[1][Len(log[1])].code = 4401
    /\ db_attempt["a"] = 2

\* the first client of a pool that returns, 0 when every client raises
RECURSIVE FirstReturning(_, _)
FirstReturning(clients, i) ==
    IF i > Len(clients) THEN 0
    ELSE IF ~clients[i].raises THEN i ELSE FirstReturning(clients, i + 1)

\* C13: generate_interviewer_reply invokes the clients in pool order; it
\* returns the (stripped) text of the first client that returns and invokes
\* no later client; it raises only when every client of the pool raised, and
\* the error it raises carries the error of the last client.
C13_Failover ==
    reply # NotCalled =>
        LET k == FirstReturning(pool, 1) IN
        /\ reply.raised <=> (\A i \in DOMAIN pool : pool[i].raises)
        /\ k # 0 => /\ ~reply.raised
                    /\ reply.invoked = [i \in 1 .. k |-> i]
                    /\ reply.text = StripText(pool[k].v)
        /\ k = 0 => /\ reply.raised
                    /\ reply.invoked = [i \in 1 .. Len(pool) |-> i]
                    /\ reply.error = pool[Len(pool)].v

\* every client raised, the first and the last with different errors
C13_Witness ==
    /\ reply # NotCalled
    /\ reply.raised
    /\ Len(pool) >= 2
    /\ pool[1].v # pool[Len(pool)].v
    /\ reply.error = pool[Len(pool)].v

\* C14: a turn whose reply was generated emits the llm_response message for
\* the cursor's index, appends the assistant entry to the history and advances
\* the cursor (or, on the last question, goes on to scoring and closes),
\* whether synthesis produced audio or failed on every credential (null
\* audio); nothing but the audio field of the message depends on synthesis.
C14_ReplyWithoutAudio ==
    [][\A s \in Sessions :
          (last'.s = s /\ last'.op \in {"AudioReply", "AudioFinal"}) =>
              LET c == current_q_index[s]
                  new == NewEvents(s)
              IN
              /\ Cardinality(PosAt(new, "llm_response", c)) = 1
              /\ Pos(new, "error") = {}
              /\ chat_hist'[s] = chat_hist[s] \o <<UserEntry, ReplyEntry>>
              /\ IF NextQuestion(questions[s], c) # -1
                 THEN /\ current_q_index'[s] = c + 1
                      /\ pc'[s] = "awaiting"
                      /\ new[Len(new)].t = "llm_response"
                 ELSE /\ pc'[s] = "closed"
                      /\ \A p \in PosAt(new, "llm_response", c) : new[p + 1].t = "score_call"
                      /\ new[Len(new)].t = "close"]_vars

\* the reply to question 0 went out with null audio, the cursor moved on and
\* the next answer was taken for question 1
C14_Witness ==
    /\ \E p \in PosAt(log[1], "llm_response", 0) : ~log[1][p].ok
    /\ PosAt(log[1], "transcript", 1) # {}
    /\ Roles(chat_hist[1], "assistant") >= 3
    /\ pc[1] = "closed"

\* C15: a store failure does not block the protocol.  When the turn write
\* fails nothing is persisted, generation is still called for that answer,
\* and a generated reply is emitted and the cursor advances as usual; when the
\* score write fails save_interview_score returns 1, the stored counter is
\* unchanged, and the final_score message is emitted before the close.
C15_PersistenceNeverBlocks ==
    [][\A s \in Sessions :
          (last'.s = s /\ last'.op \in TurnOps) =>
              LET c == current_q_index[s]
                  new == NewEvents(s)
              IN
              /\ new[2].t = "save_turn"
              /\ ~new[2].ok =>
                    /\ db_responses' = db_responses
                    /\ prompt'[s].idx = c
                    /\ last'.op = "AudioReply" =>
                          /\ new[Len(new)].t = "llm_response"
                          /\ current_q_index'[s] = c + 1
                    /\ last'.op = "AudioFinal" =>
                          /\ PosAt(new, "llm_response", c) # {}
                          /\ pc'[s] = "closed"
              /\ \A p \in Pos(new, "save_score") :
                    ~new[p].ok =>
                        /\ new[p].att = 1
                        /\ db_attempt' = db_attempt
                        /\ new[p + 1].t = "final_score"
                        /\ new[p + 1].score = new[p].score
                        /\ new[p + 2].t = "close"
                        /\ Len(new) = p + 2]_vars

\* the turn write and the score write both failed and the session completed
C15_Witness ==
    /\ pc[1] = "closed"
    /\ \E p \in Pos(log[1], "save_turn") : ~log[1][p].ok
    /\ \E p \in Pos(log[1], "save_score") : ~log[1][p].ok
    /\ Pos(log[1], "final_score") # {}
    /\ db_responses = <<>>

\* C16: the intro message carrying question 0 is emitted exactly once, by
\* the start-up of the session and before its first receive: every frame
\* (metrics notice, audio segment, malformed frame, disconnect) is received
\* by a session whose log holds that one intro, and none emits another.
C16_IntroFirst ==
    [][\A s \in Sessions :
          /\ (last'.s = s /\ last'.op \in {"Start", "StartRaises"}) =>
                /\ Pos(log[s], "intro") = {}
                /\ pc'[s] # "awaiting" => Pos(log'[s], "intro") = {}
                /\ pc'[s] = "awaiting" =>
                      /\ Cardinality(Pos(log'[s], "intro")) = 1
                      /\ log'[s][Len(log'[s])].t = "intro"
                      /\ log'[s][Len(log'[s])].idx = 0
                      /\ metrics_buffer'[s] = EmptyBuffer
          /\ (last'.s = s /\ last'.op \notin {"Start", "StartRaises", "Reject"}) =>
                /\ Cardinality(PosAt(log[s], "intro", 0)) = 1
                /\ Pos(log'[s], "intro") = Pos(log[s], "intro")
                /\ \A p \in Pos(log[s], "intro") : \A q \in DOMAIN log[s] :
                      log[s][q].t \in {"transcript", "empty_notice", "error", "llm_response"}
                          => p < q]_vars

\* a notice and an answer were received after the intro
C16_Witness ==
    /\ Cardinality(Pos(log[1], "intro")) = 1
    /\ log[1][3].t = "intro"
    /\ \E p \in Pos(log[1], "transcript") : p > 3 /\ log[1][p].m = "m1"

\* what the handler of session s holds and has done
Locals(s) ==
    <<pc[s], current_attempt[s], questions[s], interview_retriever[s], current_q_index[s],
      chat_hist[s], metrics_buffer[s], metrics_by_question[s], log[s], prompt[s]>>
Scoring(s) == Pos(log[s], "score_call") # {}
LastPos(L, t, i) == CHOOSE p \in PosAt(L, t, i) : \A q \in PosAt(L, t, i) : q <= p
RecordsOf(s) == SelectSeq(db_responses, LAMBDA d : d.interviewId = interview_id[s])
SavedTurns(s) == SelectSeq(log[s], LAMBDA e : e.t = "save_turn" /\ e.ok)

\* the state of session s is the one its own frames and collaborators lead
\* to: the cursor counts its own replies, the history its own answers and
\* replies, the finalized metrics are those of its own last answer per
\* index, and the turns persisted under its interview are its own
Alone(s) ==
    HasLocals(s) =>
        /\ current_q_index[s] = Cardinality(Pos(log[s], "llm_response"))
                                  - (IF Scoring(s) THEN 1 ELSE 0)
        /\ Roles(chat_hist[s], "user") = Cardinality(Pos(log[s], "transcript"))
        /\ Roles(chat_hist[s], "assistant")
             = Cardinality(Pos(log[s], "intro")) + Cardinality(Pos(log[s], "llm_response"))
        /\ \A i \in Idx :
              metrics_by_question[s][i] =
                  IF PosAt(log[s], "transcript", i) = {} THEN Absent
                  ELSE log[s][LastPos(log[s], "transcript", i)].m
        /\ Len(RecordsOf(s)) = Len(SavedTurns(s))
        /\ \A k \in DOMAIN RecordsOf(s) :
              /\ RecordsOf(s)[k].questionIndex = SavedTurns(s)[k].idx
              /\ RecordsOf(s)[k].metrics = SavedTurns(s)[k].m
              /\ RecordsOf(s)[k].attemptNumber = current_attempt[s]

\* C17: two sessions of one process with different interview identifiers,
\* their passes interleaved in every order: a pass of one session leaves the
\* cursor, the history, the pending and the finalized metrics (and every
\* other local) of the other session unchanged, and after every pass each
\* session is in the state its own inputs alone lead to.
C17_Isolation ==
    [][\A s \in Sessions :
          /\ last'.s = s => \A t \in Sessions \ {s} : Locals(t)' = Locals(t)
          /\ Alone(s)']_vars

\* session 2 ran to its final score between two answers of session 1, whose
\* pending notice for question 1 and finalized metrics are untouched
C17_Witness ==
    /\ interview_id[1] # interview_id[2]
    /\ last.s = 2
    /\ pc[1] = "awaiting" /\ current_q_index[1] = 1
    /\ metrics_by_question[1][0] = "m1"
    /\ metrics_buffer[1][1] = "m1"
    /\ pc[2] = "closed" /\ Pos(log[2], "final_score") # {}
    /\ metrics_by_question[2][0] = EmptyM
    /\ Len(chat_hist[1]) = 4 /\ Len(chat_hist[2]) = 4

\* C18: a disconnect at a receive ends the session and leaves the stored
\* attempt counter (and the persisted turns) as they are; the stored counter
\* changes only in the pass that emitted the reply to the last question,
\* by save_interview_score, and then to the successor of the stored value.
C18_DisconnectKeepsCounter ==
    [][\A s \in Sessions :
          /\ By(s, "Disconnect") =>
                /\ db_attempt' = db_attempt
                /\ db_responses' = db_responses
                /\ log'[s] = log[s]
                /\ pc'[s] = "ended"
          /\ (last'.s = s /\ db_attempt' # db_attempt) =>
                LET new == NewEvents(s) IN
                /\ last'.op = "AudioFinal"
                /\ \E p \in PosAt(new, "llm_response", LastIdx(s)) :
                      \E q \in Pos(new, "save_score") : p < q /\ new[q].ok
                /\ \A i \in Interviews :
                      db_attempt'[i] = IF i = interview_id[s] THEN NextAttempt(db_attempt[i])
                                       ELSE db_attempt[i]]_vars

\* the peer went away after an answer was persisted and before the last
\* question was answered
C18_Witness ==
    /\ last = [s |-> 1, op |-> "Disconnect"]
    /\ pc[1] = "ended"
    /\ db_responses # <<>>
    /\ Pos(log[1], "llm_response") # {}
    /\ Pos(log[1], "score_call") = {}
    /\ db_attempt["a"] = StoredAtStart(1)

\* C19: a metrics notice changes the pending metrics buffer at one index,
\* the questionIndex it carries (the cursor when it carries none), and
\* nothing else: cursor, history, finalized metrics, persisted turns and
\* attempt counter are unchanged, the session keeps receiving, no message is
\* emitted.
C19_NoticeFrame ==
    [][\A s \in Sessions : By(s, "RecvMetrics") =>
          /\ current_q_index'[s] = current_q_index[s]
          /\ chat_hist'[s] = chat_hist[s]
          /\ metrics_by_question'[s] = metrics_by_question[s]
          /\ store_vars' = store_vars
          /\ log'[s] = log[s]
          /\ pc'[s] = pc[s]
          /\ current_attempt'[s] = current_attempt[s]
          /\ questions'[s] = questions[s]
          /\ Cardinality({j \in Idx : metrics_buffer'[s][j] # metrics_buffer[s][j]}) <= 1
          /\ \A t \in Sessions \ {s} : metrics_buffer'[t] = metrics_buffer[t]]_vars

\* a notice for the cursor arrived while a notice for the next question was
\* pending, after the first answer
C19_Witness ==
    /\ last = [s |-> 1, op |-> "RecvMetrics"]
    /\ current_q_index[1] = 0
    /\ metrics_buffer[1][0] = EmptyM
    /\ metrics_buffer[1][1] = "m1"
    /\ Pos(log[1], "error") # {}

\* the lines of a response that start with a marker, and the text after the
\* marker on the last of them (<<>> when there is none)
MarkerLines(response, k) == {i \in DOMAIN response : StartsWith(response[i], k)}
MarkerText(response, k) ==
    IF MarkerLines(response, k) = {} THEN <<>>
    ELSE LET i == CHOOSE j \in MarkerLines(response, k) :
                     \A h \in MarkerLines(response, k) : h <= j
         IN Strip(response[i], k)
\* the tokens of a response in reading order, and the first run of digits
RECURSIVE Flatten(_)
Flatten(response) ==
    IF response = <<>> THEN <<>> ELSE Head(response) \o Flatten(Tail(response))
DigitTokens(response) == SelectSeq(Flatten(response), LAMBDA t : t.k \in {"num", "neg", "frac"})

Usable == {i \in DOMAIN tts_pool : ~tts_pool[i].raises /\ tts_pool[i].v # NoBytes}
FirstUsable == CHOOSE i \in Usable : \A j \in Usable : i <= j

\* C21: tts_text_to_base64_wav calls the synthesis clients in pool order,
\* passes over a client that raises or whose response yields no bytes,
\* returns the encoding of the first non-empty audio and calls no client
\* after it, and returns null without raising when the pool is empty or no
\* client yields audio.
C21_SynthesisFailover ==
    enc_aud.called =>
        /\ ~enc_aud.raised
        /\ IF Usable = {}
           THEN /\ enc_aud.value = NoAudio
                /\ enc_aud.invoked = [k \in 1 .. Len(tts_pool) |-> k]
           ELSE /\ enc_aud.value = B64(tts_pool[FirstUsable].v)
                /\ enc_aud.value \notin {NoAudio, ""}
                /\ enc_aud.invoked = [k \in 1 .. FirstUsable |-> k]

C21_Witness ==
    /\ enc_aud.called
    /\ Len(tts_pool) = 3
    /\ tts_pool[1] = Returns(NoBytes)
    /\ tts_pool[2] = Returns("w2")
    /\ enc_aud.value = "dzI="
    /\ enc_aud.invoked = <<1, 2>>

\* the retrieval query of the turn just taken raised
QueryFailed(s) == \E p \in DOMAIN NewEvents(s) :
                     NewEvents(s)[p].t = "retrieve" /\ ~NewEvents(s)[p].ok

\* C22: in a turn of a session without retriever (the index build returned
\* none or raised) or whose retrieval query raises, the context put into the
\* prompt is the empty string and the turn goes on to reply generation: it
\* ends with the reply message or with the notice of a generation failure,
\* and with the reply message whenever a generation client answers.
C22_EmptyContext ==
    [][\A s \in Sessions : (last'.s = s /\ last'.op \in TurnOps) =>
          LET c == current_q_index[s] IN
          /\ prompt'[s].idx = c
          /\ prompt'[s].context \in {"", "docs"}
          /\ (~interview_retriever[s] \/ QueryFailed(s)) =>
                /\ prompt'[s].context = ""
                /\ \E p \in DOMAIN NewEvents(s) :
                      /\ NewEvents(s)[p].idx = c
                      /\ NewEvents(s)[p].t = IF last'.op = "AudioGenFail" THEN "error"
                                             ELSE "llm_response"
                /\ pc'[s] = IF last'.op = "AudioFinal" THEN "closed" ELSE "awaiting"]_vars

C22_Witness ==
    \E s \in Sessions : \E p, q \in DOMAIN log[s] :
        /\ p < q
        /\ log[s][p].t = "retrieve" /\ ~log[s][p].ok /\ log[s][p].idx = 0
        /\ log[s][q].t = "llm_response" /\ log[s][q].idx = 0
        /\ last = [s |-> s, op |-> "AudioReply"]
        /\ prompt[s].context = ""

\* the bands format_metrics put into the descriptor, as positions of Bands
BandsGiven == {b \in DOMAIN Bands : \E p \in DOMAIN descriptor.parts :
                                       descriptor.parts[p] = Bands[b]}

\* C23: format_metrics puts exactly one of the four fluency bands into its
\* result for a bundle with a silence ratio r, and none for a bundle without:
\* very fluent for r < 0.2, good fluency for 0.2 <= r < 0.4, moderate pauses
\* for 0.4 <= r < 0.6, significant hesitation for r >= 0.6.  The band is the
\* number of thresholds 0.2, 0.4, 0.6 that r has reached, so a larger r never
\* gives a more fluent band.
C23_SilenceBands ==
    descriptor.called =>
        LET r == metrics.silenceRatio IN
        IF r = Missing THEN BandsGiven = {}
        ELSE /\ BandsGiven = {1 + Cardinality({t \in {20, 40, 60} : t <= r})}
             /\ (r < 20) = (VeryFluent = descriptor.parts[1])
             /\ (20 <= r /\ r < 40) = (GoodFluency = descriptor.parts[1])
             /\ (40 <= r /\ r < 60) = (ModeratePauses = descriptor.parts[1])
             /\ (r >= 60) = (Significant = descriptor.parts[1])

C23_Witness ==
    /\ descriptor.called
    /\ metrics.silenceRatio = 40
    /\ metrics.pauseCount = 3
    /\ descriptor.parts = <<ModeratePauses, "pauses detected">>

\* the documents of a stream that carry a text, in stream order
Texted(docs) == SelectSeq(docs, LAMBDA d : d.text # "")
Orderings(n) == {f \in [1 .. n -> 1 .. n] : \A i, j \in 1 .. n : f[i] = f[j] => i = j}

\* qs lists the texts of docs, each document once, and a document with a
\* smaller order field never comes after one with a larger
Ascending(qs, docs) ==
    /\ Len(qs) = Len(docs)
    /\ \E f \in Orderings(Len(docs)) :
          /\ \A k \in 1 .. Len(docs) : qs[k] = docs[f[k]].text
          /\ \A k, l \in 1 .. Len(docs) :
                (k < l /\ docs[f[k]].order # Missing /\ docs[f[l]].order # Missing)
                    => docs[f[k]].order <= docs[f[l]].order

\* C24: with every store read succeeding load_interview_questions returns a
\* non-empty list of non-empty texts: the texts of the session-scoped
\* documents by ascending order field when one of them has a text, else the
\* texts of the global documents of this interview in stream order when one
\* of them has a text, else the three default questions.
C24_QuestionSource ==
    loaded.called =>
        LET sub == Texted(stored_questions.sub)
            glob == Texted(SelectSeq(stored_questions.global,
                                     LAMBDA d : d.interviewId = Loading))
        IN
        /\ loaded.questions # <<>>
        /\ \A k \in DOMAIN loaded.questions : loaded.questions[k] # ""
        /\ IF sub # <<>> THEN Ascending(loaded.questions, sub)
           ELSE IF glob # <<>>
                THEN loaded.questions = [k \in 1 .. Len(glob) |-> glob[k].text]
                ELSE loaded.questions = DefaultQuestions /\ Len(DefaultQuestions) = 3

C24_Witness ==
    /\ loaded.called
    /\ stored_questions.sub = <<[order |-> 2, text |-> "x"], [order |-> 1, text |-> "y"]>>
    /\ stored_questions.global = <<[interviewId |-> "a", text |-> "x"]>>
    /\ loaded.questions = <<"y", "x">>

\* both sessions ran to their final score, and each started before the other
\* stored its score: both read the same stored count at their start
BothCompleted ==
    /\ \A s \in Sessions : pc[s] = "closed" /\ Pos(log[s], "final_score") # {}
    /\ StoredAtStart(1) = StoredAtStart(2)

\* C25: two sessions of one interview identifier overlap and both complete:
\* the attempt_count of each session's final_score message is the attempt
\* number under which the turns of that session were persisted.
C25_OverlapAttempt ==
    BothCompleted =>
        \A s \in Sessions :
            /\ \A d \in DOMAIN db_responses :
                  db_responses[d].attemptNumber = current_attempt[s]
            /\ \A p \in Pos(log[s], "final_score") : log[s][p].att = current_attempt[s]

\* C26: while a handler has its locals the cursor stays within
\* 0 .. len(questions)-1; a pass of the handler never lowers the cursor, and
\* raises it, by exactly 1, only in a turn that emitted the llm_response
\* message for the cursor's question and had a next question.
C26_CursorRange ==
    [][\A s \in Sessions :
          (HasLocals(s)' /\ questions'[s] # <<>>) =>
              /\ 0 <= current_q_index'[s]
              /\ current_q_index'[s] <= Len(questions'[s]) - 1
              /\ pc[s] = "accepted" => current_q_index'[s] = 0
              /\ pc[s] = "awaiting" =>
                    /\ questions'[s] = questions[s]
                    /\ current_q_index'[s] >= current_q_index[s]
                    /\ current_q_index'[s] # current_q_index[s] =>
                          /\ current_q_index'[s] = current_q_index[s] + 1
                          /\ last'.s = s /\ last'.op \in TurnOps
                          /\ \E p \in DOMAIN NewEvents(s) :
                                /\ NewEvents(s)[p].t = "llm_response"
                                /\ NewEvents(s)[p].idx = current_q_index[s]
                          /\ current_q_index[s] < Len(questions[s]) - 1]_vars

\* the cursor of a two-question session went from 0 to 1 and the session
\* then ran to its close with the cursor still 1
C26_Witness ==
    /\ pc[1] = "closed"
    /\ Len(questions[1]) = 2
    /\ current_q_index[1] = 1
    /\ PosAt(log[1], "llm_response", 0) # {}
    /\ PosAt(log[1], "llm_response", 1) # {}

FirstPos(L, t, i) == CHOOSE p \in PosAt(L, t, i) : \A q \in PosAt(L, t, i) : p <= q

\* C27: when the Scoring Engine is called, the finalized metrics of every
\* question index i are the metrics pending at the first non-empty
\* transcription of an answer to question i (the last notice for i received
\* before it, empty if none), also when the turn of i was taken again after
\* a failed reply generation.
C27_FinalizedMetrics ==
    \A s \in Sessions :
        (Scoring(s) /\ HasLocals(s)) =>
            \A i \in 0 .. LastIdx(s) :
                /\ PosAt(log[s], "transcript", i) # {}
                /\ metrics_by_question[s][i]
                     = log[s][FirstPos(log[s], "transcript", i)].m

\* C28: when the Scoring Engine is called, the conversation history holds
\* exactly one candidate (user) entry per question, and after its first,
\* system, entry it alternates interviewer (assistant) and candidate entries.
C28_HistoryShape ==
    \A s \in Sessions :
        (Scoring(s) /\ HasLocals(s)) =>
            /\ Roles(chat_hist[s], "user") = Len(questions[s])
            /\ chat_hist[s][1].role = "system"
            /\ \A k \in 2 .. Len(chat_hist[s]) :
                  chat_hist[s][k].role = IF k % 2 = 0 THEN "assistant" ELSE "user"

\* C29: when the Scoring Engine is called, the finalized metrics have an
\* entry for every question index 0 .. len(questions)-1 and for no other
\* index, so the metrics block of the scoring prompt has one line for each
\* question and is never the text "No audio metrics provided.".
C29_MetricsForEveryQuestion ==
    \A s \in Sessions :
        (Scoring(s) /\ HasLocals(s)) =>
            LET block == MetricsBlock(metrics_by_question[s]) IN
            /\ \A i \in Idx : (metrics_by_question[s][i] # Absent) = (i <= LastIdx(s))
            /\ block.text # "No audio metrics provided."
            /\ Len(block.lines) = Len(questions[s])
            /\ \A k \in DOMAIN block.lines : block.lines[k].q = k

\* a two-question session scored with an empty bundle finalized for question
\* 0 and the bundle of a notice for question 1
C29_Witness ==
    /\ Scoring(1) /\ HasLocals(1)
    /\ Len(questions[1]) = 2
    /\ metrics_by_question[1] = [i \in Idx |-> IF i = 0 THEN EmptyM ELSE "m1"]
    /\ MetricsBlock(metrics_by_question[1]).lines
         = <<[q |-> 1, m |-> "Audio analysis not available for this response."],
             [q |-> 2, m |-> "m1"]>>

\* the index under which the k-th notice of the inbox is stored, and the
\* notices taken so far that were stored under index i
Target(k) == IF inbox.frames[k].questionIndex = NoIndex THEN inbox.cursor
             ELSE inbox.frames[k].questionIndex
TakenFor(i) == {k \in 1 .. inbox.taken : Target(k) = i}

\* C30: of the metrics notices taken before an answer is consumed, the
\* pending buffer holds for each question index the metrics of the last
\* notice for that index alone, whatever earlier notices for it carried, and
\* nothing for an index without notice; a notice without questionIndex
\* counts for the index of the cursor.
C30_LastNoticeWins ==
    \A i \in Idx :
        held[i] = IF TakenFor(i) = {} THEN Absent
                  ELSE inbox.frames[CHOOSE k \in TakenFor(i) :
                                       \A j \in TakenFor(i) : j <= k].metrics

\* a notice with metrics for question 1, then a notice without questionIndex
\* and with an empty bundle while the cursor is 1
C30_Witness ==
    /\ inbox.cursor = 1
    /\ inbox.taken = 2
    /\ inbox.frames = <<[questionIndex |-> 1, metrics |-> "m1"],
                        [questionIndex |-> NoIndex, metrics |-> EmptyM]>>
    /\ held = [i \in Idx |-> IF i = 1 THEN EmptyM ELSE Absent]

\* C31: once the reply to the last question has been emitted the handler has
\* closed the channel, with the close as its last event, whether or not the
\* scoring produced a final score; whatever the client sends afterwards, no
\* turn is persisted, no history entry is added, no message is emitted and
\* no local of the session changes.
C31_NothingAfterClose ==
    [][\A s \in Sessions :
          /\ Replied(s)' =>
                /\ pc'[s] = "closed"
                /\ log'[s][Len(log'[s])].t = "close"
                /\ Cardinality(Pos(log'[s], "close")) = 1
                /\ Cardinality(Pos(log'[s], "score_call")) = 1
          /\ pc[s] = "closed" =>
                /\ Locals(s)' = Locals(s)
                /\ db_responses' = db_responses
                /\ db_attempt' = db_attempt]_vars

\* a frame arrived after the close of a session whose scoring failed
C31_Witness ==
    /\ last = [s |-> 1, op |-> "RecvAfterClose"]
    /\ Replied(1)
    /\ pc[1] = "closed"
    /\ Pos(log[1], "score_call") # {}
    /\ Pos(log[1], "final_score") = {}

\* session 1 is closed with as many persisted turns and llm_response
\* messages as it has questions, and one final_score message
Completed ==
    /\ pc[1] = "closed"
    /\ Len(db_responses) = Len(questions[1])
    /\ Cardinality(Pos(log[1], "save_turn")) = Len(questions[1])
    /\ Cardinality(Pos(log[1], "llm_response")) = Len(questions[1])
    /\ Cardinality(Pos(log[1], "final_score")) = 1

\* C32: with every collaborator call succeeding and the client sending audio
\* segments with non-empty transcripts for as long as the session awaits
\* them, a started session with n questions eventually is closed with
\* exactly n persisted turns, n llm_response messages and one final_score
\* message.
C32_Completes == (pc[1] = "awaiting") ~> Completed

\* a two-question session completed
C32_Witness ==
    /\ Completed
    /\ Len(questions[1]) = 2
    /\ \A i \in {0, 1} : Cardinality(Records(i)) = 1

=============================================================================
